---- MODULE Spec2Model ----
(***************************************************************************)
(* A model of the multi-agent coordination layer of cortex:                *)
(*   - the Command Relay (src/mindcraft/mindserver.js, class CommandRelay) *)
(*   - the leader's Tick Scheduler (src/agent/agent.js)                    *)
(*   - the cross-agent response arbitration (src/agent/agent.js chat       *)
(*     handler and src/agent/conversation_coordinator.js)                  *)
(* Each subsystem has its own next-state relation and specification; the   *)
(* variables of the other subsystems stay at their initial values.         *)
(***************************************************************************)
EXTENDS Integers, Sequences, FiniteSets, TLC

VARIABLES
    \* ---- Command Relay (CommandRelay fields) ----
    workers,          \* this.workers: workerName -> [leader, socket, status]
    workersByLeader,  \* this.workersByLeader: leaderName -> sequence of workerNames
    commandQueue,     \* this.commandQueue: commandId -> CommandRecord
    relayEmitted,     \* what the last relay call emitted: <<socket, command, commandId>>*
    relayLast,        \* the last relay call: its name, arguments and return value
    relayOps,         \* number of relay calls made so far
    leaders,          \* this.leaders: leaderName -> [socket]
    cleanupTimers,    \* pending setTimeout callbacks of updateWorkerStatus: [id, due]
    relayClock,       \* Date.now() of the hub process, in units of 30 s
    \* ---- Coordination Hub (module state of mindserver.js) ----
    agent_connections,  \* agentName -> [socket, in_game]
    worker_connections, \* workerName -> [socket, leader, in_game]
    connections,        \* per socket: [state, curAgentName, loggedInAs]
    pendingCreates,     \* create-agent handlers suspended in `await createAgent`
    workerExits,        \* workers whose connection closed and whose process has not exited yet
    hubEmitted,         \* what the last hub event emitted: [to, event, arg]*
    hubLast,            \* the last hub event
    hubOps,             \* number of client messages the hub handled
    \* ---- Tick Scheduler (Agent fields, leader mode) ----
    isLeader,         \* this.isLeader
    assignedWorkers,  \* this.assignedWorkers
    pendingContext,   \* this.pendingContext: sequence of [id, type]
    nextItemId,       \* identity of the next item queueContext accepts
    flushes,          \* every _processThoughtTick run that drained a batch: [batch, pc, calls]
    callsThisInterval,\* promptConvo calls since the interval timer last fired
    ticks,            \* number of times the interval timer fired
    chats,            \* number of chat events the chat handler answered
    \* ---- Response arbitration (chat handlers and ConversationCoordinator) ----
    now,              \* Date.now(), in seconds
    lastResponse,     \* conversationCoordinator.lastResponse: [username, responder, timestamp]
    msgs,             \* the chat messages sent so far: message -> [mentions]
    handlers,         \* one run of the chat handler per (agent, message)
    recorded,         \* the <<agent, message>> for which recordResponse was called
    responded,        \* the <<agent, message>> for which respondFunc was called
    shut_up,          \* this.shut_up of each agent
    hushed,           \* the <<agent, message>> that were waiting out their delay at a shutUp()
    routed,           \* <<agent, message>> -> what routeResponse did with the reply
    \* ---- Relationship cache of the hub (module state of mindserver.js) ----
    relationship_cache, \* Map in insertion order: sequence of [key, value]
    agent_listeners,    \* sockets that sent listen-to-agents
    listenerInterval,   \* whether the setInterval of addListener is running
    relEmitted,         \* what the last relationship event emitted: [to, event, arg]*
    relLatest,          \* per unordered pair {agent, target}: the last update received
    relLast,            \* the last relationship event
    relOps,             \* number of relationship-update events handled
    \* ---- Response decision (ConversationCoordinator and CognitiveEngine) ----
    recentMessages,     \* soulStateManager.recentMessages: sequence of [sender, message]
    decideLast,         \* the last response decision: its inputs, path and result
    \* ---- Query cache (CognitiveEngine.query) ----
    cache,              \* this.cache: cacheKey -> [result, timestamp]
    queryClock,         \* Date.now() of the agent process, in units of 10 s
    inflight,           \* queries suspended in `await this.openai.chat.completions.create`
    queryLog,           \* every query that returned: its options, times, result, outbound call
    \* ---- Emotional state (one SoulState of cognitive_engine.js) ----
    soul,               \* the SoulState: emotion, emotionIntensity, frustrationLevel, ...
    soulClock,          \* Date.now() of the agent process, in minutes
    soulLast,           \* the last call on the SoulState
    soulOps,            \* number of setEmotion and decayEmotion calls made
    \* ---- One Relationship (relationship_manager.js) ----
    relationship,       \* the Relationship: trust, fondness, respect, type, ...
    relationshipLast,   \* the last call on the Relationship and the object before it
    relationshipOps     \* number of recordInteraction and decay calls made

relayVars == <<workers, workersByLeader, commandQueue, relayEmitted, relayLast, relayOps>>

relayAuxVars == <<leaders, cleanupTimers, relayClock>>

hubVars == <<agent_connections, worker_connections, connections, pendingCreates,
             workerExits, hubEmitted, hubLast, hubOps>>

tickVars == <<isLeader, assignedWorkers, pendingContext, nextItemId, flushes,
              callsThisInterval, ticks, chats>>

arbVars == <<now, lastResponse, msgs, handlers, recorded, responded, shut_up, hushed, routed>>

relVars == <<relationship_cache, agent_listeners, listenerInterval, relEmitted, relLatest,
            relLast, relOps>>

decideVars == <<recentMessages, decideLast>>

queryVars == <<cache, queryClock, inflight, queryLog>>

soulVars == <<soul, soulClock, soulLast, soulOps>>

relationshipVars == <<relationship, relationshipLast, relationshipOps>>

extVars == <<relVars, decideVars, queryVars, soulVars, relationshipVars>>

vars == <<workers, workersByLeader, commandQueue, relayEmitted, relayLast, relayOps,
          leaders, cleanupTimers, relayClock,
          agent_connections, worker_connections, connections, pendingCreates,
          workerExits, hubEmitted, hubLast, hubOps,
          isLeader, assignedWorkers, pendingContext, nextItemId, flushes,
          callsThisInterval, ticks, chats,
          now, lastResponse, msgs, handlers, recorded, responded, shut_up, hushed, routed,
          relationship_cache, agent_listeners, listenerInterval, relEmitted, relLatest,
          relLast, relOps,
          recentMessages, decideLast,
          cache, queryClock, inflight, queryLog,
          soul, soulClock, soulLast, soulOps,
          relationship, relationshipLast, relationshipOps>>

(***************************************************************************)
(* Bounds and finite universes                                             *)
(***************************************************************************)
MaxRelayOps == 4
MaxItems    == 2
MaxTicks    == 2
MaxChats    == 2
MaxTime     == 3    \* the clock runs from Epoch to Epoch + MaxTime
MaxDelay    == 2    \* response delays are 0..MaxDelay seconds
Epoch       == 10   \* Date.now() when the model starts (lastResponse.timestamp starts at 0)
\* agent.js line 252: timeSinceLastResponse < 2000 (ms), here in seconds
ResponseWindow == 2
MaxHubOps   == 4
MaxRelayTime == 3   \* the hub's clock runs from 0 to MaxRelayTime
MaxRelOps   == 3   \* relationship-update events handled
MaxListeners == 2  \* listen-to-agents events handled
MaxHistory  == 7   \* chat lines recorded before the chat event that is decided
MaxQueries  == 3   \* calls of CognitiveEngine.query
MaxQueryTime == 3  \* the agent's clock runs from 0 to MaxQueryTime
MaxSoulOps  == 6   \* calls of setEmotion and decayEmotion
MaxSoulTime == 2   \* the SoulState's clock runs from 0 to MaxSoulTime
MaxRelationshipOps == 3  \* calls of recordInteraction and decay
\* mindserver.js line 678: setTimeout(..., 60000), here in units of 30 s
CleanupDelay == 2

WorkerNames == {"w1", "w2"}
LeaderNames == {"Alpha", "Beta"}
Sockets     == {"s1", "s2"}
Commands    == {"mine"}
NoOne       == "null"   \* JS null
\* A commandId is a string; it is modelled as the sequence of its
\* "-"-separated parts, so that `${commandId}-${idx}` is Append(commandId, idx).
CommandIds  == {<<"c1">>, <<"c2">>}

(***************************************************************************)
(* Helpers for JS Map and Array                                            *)
(***************************************************************************)
MapHas(m, k) == k \in DOMAIN m

MapSet(m, k, v) == [x \in (DOMAIN m) \cup {k} |-> IF x = k THEN v ELSE m[x]]

MapDelete(m, k) == [x \in (DOMAIN m) \ {k} |-> m[x]]

EmptyMap == [x \in {} |-> TRUE]

Includes(arr, x) == \E i \in 1..Len(arr) : arr[i] = x

\* Array.prototype.indexOf, 1-based; 0 when absent (JS: -1)
IndexOf(arr, x) ==
    IF Includes(arr, x) THEN CHOOSE i \in 1..Len(arr) :
                                  arr[i] = x /\ \A j \in 1..(i-1) : arr[j] # x
                        ELSE 0

\* arr.splice(i, 1)
SpliceOne(arr, i) == [j \in 1..(Len(arr) - 1) |-> IF j < i THEN arr[j] ELSE arr[j + 1]]

CountOf(arr, x) == Cardinality({i \in 1..Len(arr) : arr[i] = x})

(***************************************************************************)
(* Command Relay                                                           *)
(***************************************************************************)
WorkerNotFound == "Worker not found"
NotAssigned    == "Worker not assigned to this leader"
Ok             == "ok"

\* registerWorker, lines 551-558: push only if not yet in the leader's list
LeaderWorkersPushAlways(leaderWorkers, workerName) == Append(leaderWorkers, workerName)

LeaderWorkersAfterRegister(leaderWorkers, workerName) ==
    IF Includes(leaderWorkers, workerName) THEN leaderWorkers
    ELSE Append(leaderWorkers, workerName)

\* The state a routeCommand call works on: the command table and what was emitted.
\* st = [cq |-> commandQueue, out |-> emitted so far, results |-> returned so far]
RouteCommandStoreFirst(st, wk, leaderName, workerName, command, commandId) ==
    LET stored == MapSet(st.cq, commandId,
                         [leader |-> leaderName, worker |-> workerName,
                          command |-> command, status |-> "sent"])
    IN  IF ~MapHas(wk, workerName)
        THEN [st EXCEPT !.cq = stored, !.results = Append(@, WorkerNotFound)]
        ELSE IF wk[workerName].leader # leaderName
        THEN [st EXCEPT !.cq = stored, !.results = Append(@, NotAssigned)]
        ELSE [cq |-> stored,
              out |-> Append(st.out, <<wk[workerName].socket, command, commandId>>),
              results |-> Append(st.results, Ok)]

RouteCommandBroadcast(st, wk, leaderName, workerName, command, commandId) ==
    IF ~MapHas(wk, workerName)
    THEN [st EXCEPT !.results = Append(@, WorkerNotFound)]
    ELSE IF wk[workerName].leader # leaderName
    THEN [st EXCEPT !.results = Append(@, NotAssigned)]
    ELSE [cq |-> MapSet(st.cq, commandId,
                        [leader |-> leaderName, worker |-> workerName,
                         command |-> command, status |-> "sent"]),
          out |-> st.out \o << <<"s1", command, commandId>>, <<"s2", command, commandId>> >>,
          results |-> Append(st.results, Ok)]

RouteCommand(st, wk, leaderName, workerName, command, commandId) ==
    IF ~MapHas(wk, workerName)
    THEN [st EXCEPT !.results = Append(@, WorkerNotFound)]
    ELSE IF wk[workerName].leader # leaderName
    THEN [st EXCEPT !.results = Append(@, NotAssigned)]
    ELSE [cq |-> MapSet(st.cq, commandId,
                        [leader |-> leaderName, worker |-> workerName,
                         command |-> command, status |-> "sent"]),
          out |-> Append(st.out, <<wk[workerName].socket, command, commandId>>),
          results |-> Append(st.results, Ok)]

\* routeGroupCommand's forEach over the leader's list, from index idx (1-based) on
RECURSIVE RouteGroupFrom(_, _, _, _, _, _, _)
RouteGroupFrom(st, wk, list, idx, leaderName, command, commandId) ==
    IF idx > Len(list) THEN st
    ELSE RouteGroupFrom(
             RouteCommand(st, wk, leaderName, list[idx], command,
                          Append(commandId, idx - 1)),
             wk, list, idx + 1, leaderName, command, commandId)

\* this.workersByLeader.get(leaderName) || []
GetWorkersForLeader(leaderName) ==
    IF MapHas(workersByLeader, leaderName) THEN workersByLeader[leaderName] ELSE <<>>

InitRelay ==
    /\ workers = EmptyMap
    /\ workersByLeader = EmptyMap
    /\ commandQueue = EmptyMap
    /\ relayEmitted = <<>>
    /\ relayLast = [op |-> "none"]
    /\ relayOps = 0
    /\ leaders = EmptyMap
    /\ cleanupTimers = {}
    /\ relayClock = 0

RegisterWorker(workerName, leaderName, socket) ==
    /\ relayOps < MaxRelayOps
    /\ workers' = MapSet(workers, workerName,
                         [leader |-> leaderName, socket |-> socket, status |-> "registered"])
    /\ workersByLeader' = MapSet(workersByLeader, leaderName,
                                 LeaderWorkersAfterRegister(GetWorkersForLeader(leaderName),
                                                            workerName))
    /\ relayEmitted' = <<>>
    /\ relayLast' = [op |-> "registerWorker", worker |-> workerName, leader |-> leaderName,
                     again |-> (MapHas(workers, workerName)
                                /\ workers[workerName].leader = leaderName)]
    /\ relayOps' = relayOps + 1
    /\ UNCHANGED commandQueue
    /\ UNCHANGED <<relayAuxVars, hubVars, tickVars, arbVars, extVars>>

\* removeWorker, lines 588-597, on st = [workers, workersByLeader]
RemoveWorkerState(st, workerName) ==
    IF MapHas(st.workers, workerName)
    THEN LET leaderName == st.workers[workerName].leader
             leaderWorkers == IF MapHas(st.workersByLeader, leaderName)
                              THEN st.workersByLeader[leaderName] ELSE <<>>
             idx == IndexOf(leaderWorkers, workerName)
         IN  [workers |-> MapDelete(st.workers, workerName),
              workersByLeader |->
                  IF MapHas(st.workersByLeader, leaderName) /\ idx > 0
                  THEN [st.workersByLeader EXCEPT ![leaderName] = SpliceOne(@, idx)]
                  ELSE st.workersByLeader]
    ELSE st

RemoveWorker(workerName) ==
    /\ relayOps < MaxRelayOps
    /\ LET st == RemoveWorkerState([workers |-> workers,
                                    workersByLeader |-> workersByLeader], workerName)
       IN  /\ workers' = st.workers
           /\ workersByLeader' = st.workersByLeader
    /\ relayEmitted' = <<>>
    /\ relayLast' = [op |-> "removeWorker", worker |-> workerName]
    /\ relayOps' = relayOps + 1
    /\ UNCHANGED commandQueue
    /\ UNCHANGED <<relayAuxVars, hubVars, tickVars, arbVars, extVars>>

RouteCommandCall(leaderName, workerName, command, commandId) ==
    /\ relayOps < MaxRelayOps
    /\ LET st == RouteCommand([cq |-> commandQueue, out |-> <<>>, results |-> <<>>],
                              workers, leaderName, workerName, command, commandId)
       IN  /\ commandQueue' = st.cq
           /\ relayEmitted' = st.out
           /\ relayLast' = [op |-> "routeCommand", leader |-> leaderName,
                            worker |-> workerName, command |-> command,
                            commandId |-> commandId, result |-> st.results[1]]
    /\ relayOps' = relayOps + 1
    /\ UNCHANGED <<workers, workersByLeader>>
    /\ UNCHANGED <<relayAuxVars, hubVars, tickVars, arbVars, extVars>>

RouteGroupCommandCall(leaderName, command, commandId) ==
    /\ relayOps < MaxRelayOps
    /\ LET st == RouteGroupFrom([cq |-> commandQueue, out |-> <<>>, results |-> <<>>],
                                workers, GetWorkersForLeader(leaderName), 1,
                                leaderName, command, commandId)
       IN  /\ commandQueue' = st.cq
           /\ relayEmitted' = st.out
           /\ relayLast' = [op |-> "routeGroupCommand", leader |-> leaderName,
                            command |-> command, commandId |-> commandId,
                            results |-> st.results]
    /\ relayOps' = relayOps + 1
    /\ UNCHANGED <<workers, workersByLeader>>
    /\ UNCHANGED <<relayAuxVars, hubVars, tickVars, arbVars, extVars>>

NextRelay ==
    \/ \E w \in WorkerNames, l \in LeaderNames, s \in Sockets : RegisterWorker(w, l, s)
    \/ \E w \in WorkerNames : RemoveWorker(w)
    \/ \E l \in LeaderNames, w \in WorkerNames, c \in Commands, id \in CommandIds :
           RouteCommandCall(l, w, c, id)
    \/ \E l \in LeaderNames, c \in Commands, id \in CommandIds :
           RouteGroupCommandCall(l, c, id)


(***************************************************************************)
(* Command Relay: leaders, status reports and the cleanup timer            *)
(***************************************************************************)
\* status.status of a report; the relay stores whatever string the worker sends
ReportedStatuses == {"idle", "completed", "error"}
TerminalStatuses == {"completed", "error"}
\* status.commandId is undefined
NoCommand == <<>>

\* registerLeader, lines 570-573 (the workers Set of the entry is never used)
LeadersAfterRegister(ls, leaderName, socket) == MapSet(ls, leaderName, [socket |-> socket])

\* removeLeader, line 604, on st = [leaders, workers, workersByLeader]
RemoveLeaderCascade(st, leaderName) ==
    [leaders |-> MapDelete(st.leaders, leaderName),
     workers |-> [w \in {x \in DOMAIN st.workers : st.workers[x].leader # leaderName}
                     |-> st.workers[w]],
     workersByLeader |-> MapDelete(st.workersByLeader, leaderName)]

RemoveLeaderState(st, leaderName) ==
    [st EXCEPT !.leaders = MapDelete(st.leaders, leaderName)]

\* updateWorkerStatus, line 673: cmd.status = status.status.  The field since is not
\* in the program: it remembers when the record's status became terminal.
CommandAfterStatus(cmd, status, time) ==
    IF status \in TerminalStatuses
    THEN [leader |-> cmd.leader, worker |-> cmd.worker, command |-> cmd.command,
          status |-> status,
          since |-> IF "since" \in DOMAIN cmd THEN cmd.since ELSE time]
    ELSE [leader |-> cmd.leader, worker |-> cmd.worker, command |-> cmd.command,
          status |-> status]

\* updateWorkerStatus, lines 684-690: what is emitted to the leader's socket
ForwardToLeader(ls, leaderName, workerName) ==
    IF MapHas(ls, leaderName)
    THEN << <<ls[leaderName].socket, "worker-status-update", workerName>> >>
    ELSE <<>>

RegisterLeader(leaderName, socket) ==
    /\ relayOps < MaxRelayOps
    /\ leaders' = LeadersAfterRegister(leaders, leaderName, socket)
    /\ workersByLeader' = IF MapHas(workersByLeader, leaderName) THEN workersByLeader
                          ELSE MapSet(workersByLeader, leaderName, <<>>)
    /\ relayEmitted' = <<>>
    /\ relayLast' = [op |-> "registerLeader", leader |-> leaderName]
    /\ relayOps' = relayOps + 1
    /\ UNCHANGED <<workers, commandQueue, cleanupTimers, relayClock>>
    /\ UNCHANGED <<hubVars, tickVars, arbVars, extVars>>

RemoveLeader(leaderName) ==
    /\ relayOps < MaxRelayOps
    /\ LET st == RemoveLeaderState([leaders |-> leaders, workers |-> workers,
                                    workersByLeader |-> workersByLeader], leaderName)
       IN  /\ leaders' = st.leaders
           /\ workers' = st.workers
           /\ workersByLeader' = st.workersByLeader
    /\ relayEmitted' = <<>>
    /\ relayLast' = [op |-> "removeLeader", leader |-> leaderName,
                     existed |-> MapHas(leaders, leaderName)]
    /\ relayOps' = relayOps + 1
    /\ UNCHANGED <<commandQueue, cleanupTimers, relayClock>>
    /\ UNCHANGED <<hubVars, tickVars, arbVars, extVars>>

UpdateWorkerStatus(workerName, status, commandId) ==
    /\ relayOps < MaxRelayOps
    /\ IF MapHas(workers, workerName)
       THEN LET tracked == commandId # NoCommand /\ MapHas(commandQueue, commandId)
            IN  /\ workers' = [workers EXCEPT ![workerName].status = status]
                /\ commandQueue' =
                       IF tracked
                       THEN [commandQueue EXCEPT ![commandId] =
                                CommandAfterStatus(@, status, relayClock)]
                       ELSE commandQueue
                /\ cleanupTimers' =
                       IF tracked /\ status \in TerminalStatuses
                       THEN cleanupTimers \cup
                                {[id |-> commandId, due |-> relayClock + CleanupDelay]}
                       ELSE cleanupTimers
                /\ relayEmitted' = ForwardToLeader(leaders, workers[workerName].leader,
                                                   workerName)
       ELSE /\ UNCHANGED <<workers, commandQueue, cleanupTimers>>
            /\ relayEmitted' = <<>>
    /\ relayLast' = [op |-> "updateWorkerStatus", worker |-> workerName,
                     status |-> status, commandId |-> commandId,
                     registered |-> MapHas(workers, workerName)]
    /\ relayOps' = relayOps + 1
    /\ UNCHANGED <<workersByLeader, leaders, relayClock>>
    /\ UNCHANGED <<hubVars, tickVars, arbVars, extVars>>

\* The callback of lines 676-678 runs: setTimeout never fires early
CleanupFires(timer) ==
    /\ timer \in cleanupTimers
    /\ relayClock >= timer.due
    /\ cleanupTimers' = cleanupTimers \ {timer}
    /\ commandQueue' = IF MapHas(commandQueue, timer.id)
                       THEN MapDelete(commandQueue, timer.id) ELSE commandQueue
    /\ relayEmitted' = <<>>
    /\ relayLast' = [op |-> "cleanup", commandId |-> timer.id]
    /\ UNCHANGED <<workers, workersByLeader, relayOps, leaders, relayClock>>
    /\ UNCHANGED <<hubVars, tickVars, arbVars, extVars>>

\* 30 s pass on the hub's clock, which only the pending timers read
RelayTimePasses ==
    /\ cleanupTimers # {}
    /\ relayClock < MaxRelayTime
    /\ relayClock' = relayClock + 1
    /\ UNCHANGED <<relayVars, leaders, cleanupTimers>>
    /\ UNCHANGED <<hubVars, tickVars, arbVars, extVars>>

NextRelayStatus ==
    \/ \E w \in WorkerNames, l \in LeaderNames, s \in Sockets : RegisterWorker(w, l, s)
    \/ \E l \in LeaderNames, s \in Sockets : RegisterLeader(l, s)
    \/ \E l \in LeaderNames : RemoveLeader(l)
    \/ \E l \in LeaderNames, w \in WorkerNames, c \in Commands, id \in CommandIds :
           RouteCommandCall(l, w, c, id)
    \/ \E w \in WorkerNames, st \in ReportedStatuses, id \in CommandIds \cup {NoCommand} :
           UpdateWorkerStatus(w, st, id)
    \/ \E t \in cleanupTimers : CleanupFires(t)
    \/ RelayTimePasses

(***************************************************************************)
(* Coordination Hub: the socket handlers of createMindServer               *)
(***************************************************************************)
HubAgents  == LeaderNames
HubWorkers == {"w1"}
Everyone   == "all"     \* io.emit: every connection
AlreadyExists == "Agent already exists"

\* new AgentConnection(settings, viewer_port), lines 71-77
NewAgentConnection == [socket |-> NoOne, in_game |-> FALSE]

\* registerAgent, lines 83-86
RegisterAgent(ac, name) == MapSet(ac, name, NewAgentConnection)

\* lines 115-118 and 373-376: leader.socket.emit(event, workerName)
NotifyLeader(ac, leaderName, event, workerName) ==
    IF MapHas(ac, leaderName) /\ ac[leaderName].socket # NoOne
    THEN << [to |-> ac[leaderName].socket, event |-> event, arg |-> workerName] >>
    ELSE <<>>

\* logoutWorker, lines 107-120, on st = [wc, workers, workersByLeader, out]
LogoutWorkerKeepsRelayRecord(st, ac, workerName) ==
    IF MapHas(st.wc, workerName)
    THEN [wc |-> [st.wc EXCEPT ![workerName].in_game = FALSE],
          workers |-> st.workers,
          workersByLeader |-> st.workersByLeader,
          out |-> NotifyLeader(ac, st.wc[workerName].leader, "worker-left", workerName)]
    ELSE st

LogoutWorker(st, ac, workerName) ==
    IF MapHas(st.wc, workerName)
    THEN LET relay == RemoveWorkerState([workers |-> st.workers,
                                         workersByLeader |-> st.workersByLeader],
                                        workerName)
         IN  [wc |-> [st.wc EXCEPT ![workerName].in_game = FALSE],
              workers |-> relay.workers,
              workersByLeader |-> relay.workersByLeader,
              out |-> NotifyLeader(ac, st.wc[workerName].leader, "worker-left", workerName)]
    ELSE st

IsOpen(s) == connections[s].state = "open"

InitHub ==
    /\ agent_connections = EmptyMap
    /\ worker_connections = EmptyMap
    /\ connections = [s \in Sockets |->
                         [state |-> "unused", curAgentName |-> NoOne, loggedInAs |-> {}]]
    /\ pendingCreates = {}
    /\ workerExits = {}
    /\ hubEmitted = <<>>
    /\ hubLast = [op |-> "none"]
    /\ hubOps = 0

\* io.on('connection'), lines 136-141
Connect(s) ==
    /\ connections[s].state = "unused"
    /\ connections' = [connections EXCEPT ![s].state = "open"]
    /\ hubEmitted' = <<>>
    /\ hubLast' = [op |-> "connection", socket |-> s]
    /\ UNCHANGED <<agent_connections, worker_connections, pendingCreates, workerExits, hubOps>>
    /\ UNCHANGED <<relayVars, relayAuxVars, tickVars, arbVars, extVars>>

\* main.js lines 145 and 211: createAgent is called for each profile, without a
\* look at agent_connections; createAgent registers before its first await
StartupCreateAgent(name) ==
    /\ hubOps < MaxHubOps
    /\ agent_connections' = RegisterAgent(agent_connections, name)
    /\ hubEmitted' = <<>>
    /\ hubLast' = [op |-> "createAgent", name |-> name, result |-> "success"]
    /\ hubOps' = hubOps + 1
    /\ UNCHANGED <<worker_connections, connections, pendingCreates, workerExits>>
    /\ UNCHANGED <<relayVars, relayAuxVars, tickVars, arbVars, extVars>>

\* socket.on('create-agent'), lines 143-166: up to `await mindcraft.createAgent`
CreateAgentEvent(s, name) ==
    /\ hubOps < MaxHubOps
    /\ IsOpen(s)
    /\ IF MapHas(agent_connections, name)
       THEN /\ hubEmitted' = << [to |-> s, event |-> "callback", arg |-> AlreadyExists] >>
            /\ hubLast' = [op |-> "create-agent", name |-> name, result |-> AlreadyExists]
            /\ UNCHANGED <<agent_connections, pendingCreates>>
       ELSE /\ agent_connections' = RegisterAgent(agent_connections, name)
            /\ pendingCreates' = pendingCreates \cup {[socket |-> s, name |-> name]}
            /\ hubEmitted' = <<>>
            /\ hubLast' = [op |-> "create-agent", name |-> name, result |-> "pending"]
    /\ hubOps' = hubOps + 1
    /\ UNCHANGED <<worker_connections, connections, workerExits>>
    /\ UNCHANGED <<relayVars, relayAuxVars, tickVars, arbVars, extVars>>

\* socket.on('create-agent'), lines 166-173: createAgent returned
CreateAgentReturned(p, success) ==
    /\ p \in pendingCreates
    /\ pendingCreates' = pendingCreates \ {p}
    /\ agent_connections' =
           IF ~success /\ MapHas(agent_connections, p.name)
           THEN MapDelete(agent_connections, p.name) ELSE agent_connections
    /\ hubEmitted' = << [to |-> p.socket, event |-> "callback",
                         arg |-> IF success THEN "success" ELSE "error"] >>
    /\ hubLast' = [op |-> "create-agent-returned", name |-> p.name]
    /\ UNCHANGED <<worker_connections, connections, workerExits, hubOps>>
    /\ UNCHANGED <<relayVars, relayAuxVars, tickVars, arbVars, extVars>>

\* socket.on('connect-agent-process'), lines 189-194
ConnectAgentProcess(s, name) ==
    /\ hubOps < MaxHubOps
    /\ IsOpen(s)
    /\ agent_connections' =
           IF MapHas(agent_connections, name)
           THEN [agent_connections EXCEPT ![name].socket = s] ELSE agent_connections
    /\ hubEmitted' = <<>>
    /\ hubLast' = [op |-> "connect-agent-process", socket |-> s, name |-> name]
    /\ hubOps' = hubOps + 1
    /\ UNCHANGED <<worker_connections, connections, pendingCreates, workerExits>>
    /\ UNCHANGED <<relayVars, relayAuxVars, tickVars, arbVars, extVars>>

\* socket.on('login-agent'), lines 196-206.  loggedInAs is not in the program: it
\* remembers every name the connection logged in as.
LoginAgent(s, name) ==
    /\ hubOps < MaxHubOps
    /\ IsOpen(s)
    /\ IF MapHas(agent_connections, name)
       THEN /\ agent_connections' = [agent_connections EXCEPT ![name].socket = s,
                                                              ![name].in_game = TRUE]
            /\ connections' = [connections EXCEPT ![s].curAgentName = name,
                                                  ![s].loggedInAs = @ \cup {name}]
       ELSE UNCHANGED <<agent_connections, connections>>
    /\ hubEmitted' = <<>>
    /\ hubLast' = [op |-> "login-agent", socket |-> s, name |-> name]
    /\ hubOps' = hubOps + 1
    /\ UNCHANGED <<worker_connections, pendingCreates, workerExits>>
    /\ UNCHANGED <<relayVars, relayAuxVars, tickVars, arbVars, extVars>>

\* addListener, lines 485-508: the first listener starts the interval
AddListener(listeners, interval, listener_socket) ==
    LET pushed == Append(listeners, listener_socket)
    IN  [agent_listeners |-> pushed,
         listenerInterval |-> IF Len(pushed) = 1 THEN TRUE ELSE interval]

\* removeListener, lines 510-516: splice(indexOf(listener_socket), 1)
RemoveListener(listeners, interval, listener_socket) ==
    LET spliced == SpliceOne(listeners, IndexOf(listeners, listener_socket))
    IN  [agent_listeners |-> spliced,
         listenerInterval |-> IF Len(spliced) = 0 THEN FALSE ELSE interval]

\* socket.on('disconnect'), lines 208-218.  The worker side of a closed connection
\* kills its process (cognitive_engine.js lines 1049-1055): workerExits remembers it.
Disconnect(s) ==
    /\ IsOpen(s)
    /\ LET cur == connections[s].curAgentName
       IN  agent_connections' =
               IF MapHas(agent_connections, cur)
               THEN [agent_connections EXCEPT ![cur].in_game = FALSE, ![cur].socket = NoOne]
               ELSE agent_connections
    /\ connections' = [connections EXCEPT ![s].state = "closed"]
    /\ workerExits' = workerExits \cup
                          {w \in DOMAIN worker_connections : worker_connections[w].socket = s}
    /\ hubEmitted' = <<>>
    /\ hubLast' = [op |-> "disconnect", socket |-> s]
    /\ LET after == IF Includes(agent_listeners, s)
                    THEN RemoveListener(agent_listeners, listenerInterval, s)
                    ELSE [agent_listeners |-> agent_listeners,
                          listenerInterval |-> listenerInterval]
       IN  /\ agent_listeners' = after.agent_listeners
           /\ listenerInterval' = after.listenerInterval
    /\ UNCHANGED <<worker_connections, pendingCreates, hubOps>>
    /\ UNCHANGED <<relationship_cache, relEmitted, relLatest, relLast, relOps>>
    /\ UNCHANGED <<relayVars, relayAuxVars, tickVars, arbVars, decideVars, queryVars,
                   soulVars, relationshipVars>>

\* socket.on('register-worker'), lines 350-363
RegisterWorkerEvent(s, workerName, leaderName) ==
    /\ hubOps < MaxHubOps
    /\ IsOpen(s)
    /\ worker_connections' =
           MapSet(worker_connections, workerName,
                  IF MapHas(worker_connections, workerName)
                  THEN [worker_connections[workerName] EXCEPT !.socket = s]
                  ELSE [socket |-> s, leader |-> leaderName, in_game |-> FALSE])
    /\ workers' = MapSet(workers, workerName,
                         [leader |-> leaderName, socket |-> s, status |-> "registered"])
    /\ workersByLeader' = MapSet(workersByLeader, leaderName,
                                 LeaderWorkersAfterRegister(GetWorkersForLeader(leaderName),
                                                            workerName))
    /\ hubEmitted' = <<>>
    /\ hubLast' = [op |-> "register-worker", socket |-> s, worker |-> workerName]
    /\ hubOps' = hubOps + 1
    /\ UNCHANGED <<agent_connections, connections, pendingCreates, workerExits>>
    /\ UNCHANGED <<commandQueue, relayEmitted, relayLast, relayOps>>
    /\ UNCHANGED <<relayAuxVars, tickVars, arbVars, extVars>>

\* socket.on('login-worker'), lines 366-378
LoginWorkerEvent(s, workerName, leaderName) ==
    /\ hubOps < MaxHubOps
    /\ IsOpen(s)
    /\ IF MapHas(worker_connections, workerName)
       THEN /\ worker_connections' = [worker_connections EXCEPT ![workerName].socket = s,
                                                                ![workerName].in_game = TRUE]
            /\ hubEmitted' = NotifyLeader(agent_connections, leaderName,
                                          "worker-joined", workerName)
       ELSE /\ UNCHANGED worker_connections
            /\ hubEmitted' = <<>>
    /\ hubLast' = [op |-> "login-worker", socket |-> s, worker |-> workerName]
    /\ hubOps' = hubOps + 1
    /\ UNCHANGED <<agent_connections, connections, pendingCreates, workerExits>>
    /\ UNCHANGED <<relayVars, relayAuxVars, tickVars, arbVars, extVars>>

\* The worker's process has exited: its WorkerProcess (src/process/worker_process.js)
\* calls logoutWorker, as the hub's contract for a disconnect requires
WorkerProcessExit(workerName) ==
    /\ workerName \in workerExits
    /\ workerExits' = workerExits \ {workerName}
    /\ LET st == LogoutWorker([wc |-> worker_connections, workers |-> workers,
                               workersByLeader |-> workersByLeader, out |-> <<>>],
                              agent_connections, workerName)
       IN  /\ worker_connections' = st.wc
           /\ workers' = st.workers
           /\ workersByLeader' = st.workersByLeader
           /\ hubEmitted' = st.out
    /\ hubLast' = [op |-> "worker-exit", worker |-> workerName,
                   leader |-> worker_connections[workerName].leader,
                   wasInGame |-> worker_connections[workerName].in_game,
                   wasRegistered |-> MapHas(workers, workerName)]
    /\ UNCHANGED <<agent_connections, connections, pendingCreates, hubOps>>
    /\ UNCHANGED <<commandQueue, relayEmitted, relayLast, relayOps>>
    /\ UNCHANGED <<relayAuxVars, tickVars, arbVars, extVars>>

\* socket.on('leader-command'), lines 390-406
LeaderCommandEvent(s, leaderName, workerName, command, commandId) ==
    /\ hubOps < MaxHubOps
    /\ IsOpen(s)
    /\ LET st == RouteCommand([cq |-> commandQueue, out |-> <<>>, results |-> <<>>],
                              workers, leaderName, workerName, command, commandId)
       IN  /\ commandQueue' = st.cq
           /\ relayEmitted' = st.out
           /\ hubLast' = [op |-> "leader-command", socket |-> s, leader |-> leaderName,
                          worker |-> workerName, result |-> st.results[1]]
    /\ hubEmitted' = << [to |-> Everyone, event |-> "command-sent", arg |-> workerName] >>
    /\ hubOps' = hubOps + 1
    /\ UNCHANGED <<agent_connections, worker_connections, connections, pendingCreates,
                   workerExits>>
    /\ UNCHANGED <<workers, workersByLeader, relayLast, relayOps>>
    /\ UNCHANGED <<relayAuxVars, tickVars, arbVars, extVars>>

NextHub ==
    \/ \E s \in Sockets : Connect(s)
    \/ \E s \in Sockets : Disconnect(s)
    \/ \E name \in HubAgents : StartupCreateAgent(name)
    \/ \E s \in Sockets, name \in HubAgents : CreateAgentEvent(s, name)
    \/ \E p \in pendingCreates, success \in BOOLEAN : CreateAgentReturned(p, success)
    \/ \E s \in Sockets, name \in HubAgents : ConnectAgentProcess(s, name)
    \/ \E s \in Sockets, name \in HubAgents : LoginAgent(s, name)
    \/ \E s \in Sockets, w \in HubWorkers, l \in HubAgents : RegisterWorkerEvent(s, w, l)
    \/ \E s \in Sockets, w \in HubWorkers, l \in HubAgents : LoginWorkerEvent(s, w, l)
    \/ \E w \in HubWorkers : WorkerProcessExit(w)
    \/ \E s \in Sockets, l \in HubAgents, w \in HubWorkers, c \in Commands :
           LeaderCommandEvent(s, l, w, c, <<"c1">>)

(***************************************************************************)
(* Coordination Hub: the relationship cache                                *)
(***************************************************************************)
\* The names that occur in relationship updates, in the order of
\* Array.prototype.sort (UTF-16 code units)
RelNames == <<"Alpha", "Beta", "Steve">>
RelAgents == {"Alpha", "Beta"}
TrustValues == {0, 1}

\* [a, b].sort()
SortPair(a, b) == IF IndexOf(RelNames, a) <= IndexOf(RelNames, b) THEN <<a, b>> ELSE <<b, a>>

\* the key without the sort: `${agent}-${target}`
RelationshipKeyOrdered(agent, target) == agent \o "-" \o target

\* lines 38 and 305: [agent, target].sort().join('-')
RelationshipKey(agent, target) ==
    LET sorted == SortPair(agent, target) IN sorted[1] \o "-" \o sorted[2]

\* Map.prototype.set on a Map kept in insertion order
OrderedMapSet(m, k, v) ==
    IF \E i \in 1..Len(m) : m[i].key = k
    THEN [i \in 1..Len(m) |-> IF m[i].key = k THEN [key |-> k, value |-> v] ELSE m[i]]
    ELSE Append(m, [key |-> k, value |-> v])

\* the relationships.json files under ./bots: [botName, target, trust, lastInteraction]*
SavedRelationships ==
    { <<>>,
      << [botName |-> "Alpha", target |-> "Steve", trust |-> 1, lastInteraction |-> 0] >> }

\* loadSavedRelationships, lines 25-61
RECURSIVE LoadSavedRelationships(_, _)
LoadSavedRelationships(m, saved) ==
    IF saved = <<>> THEN m
    ELSE LET rel == Head(saved)
         IN  LoadSavedRelationships(
                 OrderedMapSet(m, RelationshipKey(rel.botName, rel.target),
                               [agent |-> rel.botName, target |-> rel.target,
                                trust |-> rel.trust, timestamp |-> rel.lastInteraction]),
                 Tail(saved))

InitRelationshipsFrom(saved) ==
    /\ relationship_cache = LoadSavedRelationships(<<>>, saved)
    /\ agent_listeners = <<>>
    /\ listenerInterval = FALSE
    /\ relEmitted = <<>>
    /\ relLatest = EmptyMap
    /\ relLast = [op |-> "none"]
    /\ relOps = 0

\* no ./bots directory
InitRelationships == InitRelationshipsFrom(<<>>)

\* socket.on('relationship-update'), lines 303-312
RelationshipUpdateEvent(s, data) ==
    /\ relOps < MaxRelOps
    /\ IsOpen(s)
    /\ relOps' = relOps + 1
    /\ relationship_cache' =
           OrderedMapSet(relationship_cache, RelationshipKey(data.agent, data.target),
                         [agent |-> data.agent, target |-> data.target,
                          trust |-> data.trust, timestamp |-> relOps + 1])
    /\ relEmitted' = << [to |-> Everyone, event |-> "relationship-update", arg |-> data] >>
    /\ relLatest' = MapSet(relLatest, {data.agent, data.target}, data)
    /\ relLast' = [op |-> "relationship-update", socket |-> s, data |-> data]
    /\ UNCHANGED <<agent_listeners, listenerInterval>>
    /\ UNCHANGED <<relayVars, relayAuxVars, hubVars, tickVars, arbVars, decideVars, queryVars,
                   soulVars, relationshipVars>>

\* socket.on('listen-to-agents'), lines 314-321, and addListener, lines 485-487
ListenToAgentsEvent(s) ==
    /\ Len(agent_listeners) < MaxListeners
    /\ IsOpen(s)
    /\ LET after == AddListener(agent_listeners, listenerInterval, s)
       IN  /\ agent_listeners' = after.agent_listeners
           /\ listenerInterval' = after.listenerInterval
    /\ relEmitted' = [i \in 1..Len(relationship_cache) |->
                         [to |-> s, event |-> "relationship-update",
                          arg |-> relationship_cache[i].value]]
    /\ relLast' = [op |-> "listen-to-agents", socket |-> s]
    /\ UNCHANGED <<relationship_cache, relLatest, relOps>>
    /\ UNCHANGED <<relayVars, relayAuxVars, hubVars, tickVars, arbVars, decideVars, queryVars,
                   soulVars, relationshipVars>>

\* The callback of the interval, lines 488-506: the agents in game are asked for
\* their full state (they are taken to answer) and every listener is sent the states
ListenerIntervalFires ==
    /\ listenerInterval
    /\ LET inGame == SelectSeq(<<"Alpha", "Beta">>,
                               LAMBDA name : /\ MapHas(agent_connections, name)
                                             /\ agent_connections[name].in_game
                                             /\ agent_connections[name].socket # NoOne)
       IN  relEmitted' =
               [i \in 1..Len(inGame) |->
                   [to |-> agent_connections[inGame[i]].socket, event |-> "get-full-state",
                    arg |-> inGame[i]]]
               \o [i \in 1..Len(agent_listeners) |->
                      [to |-> agent_listeners[i], event |-> "state-update", arg |-> "states"]]
    /\ relLast' = [op |-> "interval"]
    /\ UNCHANGED <<relationship_cache, agent_listeners, listenerInterval, relLatest, relOps>>
    /\ UNCHANGED <<relayVars, relayAuxVars, hubVars, tickVars, arbVars, decideVars, queryVars,
                   soulVars, relationshipVars>>

NextRelationships ==
    \/ \E s \in Sockets : Connect(s)
    \/ \E s \in Sockets : Disconnect(s)
    \/ ListenerIntervalFires
    \/ \E s \in Sockets, agent \in RelAgents, trust \in TrustValues :
           \E target \in {RelNames[i] : i \in 1..Len(RelNames)} \ {agent} :
               RelationshipUpdateEvent(s, [agent |-> agent, target |-> target, trust |-> trust])
    \/ \E s \in Sockets : ListenToAgentsEvent(s)

(***************************************************************************)
(* Tick Scheduler (leader mode)                                            *)
(***************************************************************************)
\* The tags _processThoughtTick renders; queueContext accepts any object
RenderedTypes == {"worker_report", "chat", "event"}
ContextTypes  == RenderedTypes \cup {"other"}

\* _processThoughtTick, line 617: the queue after the drain
PendingKeptAfterDrain(queue) == queue

PendingAfterDrain(queue) == <<>>

\* _processThoughtTick, lines 622-655: batchedMessage.trim() is not empty
BatchedMessageIgnoresWorkers(batch, workerList) ==
    \E i \in 1..Len(batch) : batch[i].type \in RenderedTypes

BatchedMessageNonEmpty(batch, workerList) ==
    \/ \E i \in 1..Len(batch) : batch[i].type \in RenderedTypes
    \/ Len(workerList) > 0

InitTick ==
    /\ isLeader \in BOOLEAN
    /\ assignedWorkers \in {<<>>, <<"w1">>}
    /\ pendingContext = <<>>
    /\ nextItemId = 1
    /\ flushes = <<>>
    /\ callsThisInterval = 0
    /\ ticks = 0
    /\ chats = 0

\* queueContext(contextItem)
QueueContext(type) ==
    /\ nextItemId <= MaxItems
    /\ IF ~isLeader
       THEN UNCHANGED <<pendingContext, nextItemId>>
       ELSE /\ pendingContext' = Append(pendingContext, [id |-> nextItemId, type |-> type])
            /\ nextItemId' = nextItemId + 1
    /\ UNCHANGED <<isLeader, assignedWorkers, flushes, callsThisInterval, ticks, chats>>
    /\ UNCHANGED <<relayVars, relayAuxVars, hubVars, arbVars, extVars>>

\* The setInterval callback of _startThoughtTick with _processThoughtTick up to its
\* first await
ThoughtTick ==
    /\ isLeader
    /\ ticks < MaxTicks
    /\ ticks' = ticks + 1
    /\ callsThisInterval' = 0
    /\ IF Len(pendingContext) = 0
       THEN UNCHANGED <<pendingContext, flushes>>
       ELSE /\ pendingContext' = PendingAfterDrain(pendingContext)
            /\ flushes' = Append(flushes,
                   [batch |-> pendingContext,
                    pc |-> IF BatchedMessageNonEmpty(pendingContext, assignedWorkers)
                           THEN "adding" ELSE "done",
                    calls |-> 0])
    /\ UNCHANGED <<isLeader, assignedWorkers, nextItemId, chats>>
    /\ UNCHANGED <<relayVars, relayAuxVars, hubVars, arbVars, extVars>>

\* history.add resolved: _processThoughtTick calls prompter.promptConvo (line 661)
FlushPrompt(i) ==
    /\ i \in 1..Len(flushes)
    /\ flushes[i].pc = "adding"
    /\ flushes' = [flushes EXCEPT ![i].pc = "awaiting", ![i].calls = @ + 1]
    /\ callsThisInterval' = callsThisInterval + 1
    /\ UNCHANGED <<isLeader, assignedWorkers, pendingContext, nextItemId, ticks, chats>>
    /\ UNCHANGED <<relayVars, relayAuxVars, hubVars, arbVars, extVars>>

\* promptConvo resolved: the rest of _processThoughtTick (lines 663-681)
FlushReturn(i) ==
    /\ i \in 1..Len(flushes)
    /\ flushes[i].pc = "awaiting"
    /\ flushes' = [flushes EXCEPT ![i].pc = "done"]
    /\ UNCHANGED <<isLeader, assignedWorkers, pendingContext, nextItemId,
                   callsThisInterval, ticks, chats>>
    /\ UNCHANGED <<relayVars, relayAuxVars, hubVars, arbVars, extVars>>

\* The chat handler decided to answer: respondFunc -> handleMessage -> promptConvo
\* (line 416). It does not look at isLeader.
ChatAnswered ==
    /\ chats < MaxChats
    /\ chats' = chats + 1
    /\ callsThisInterval' = callsThisInterval + 1
    /\ UNCHANGED <<isLeader, assignedWorkers, pendingContext, nextItemId, flushes, ticks>>
    /\ UNCHANGED <<relayVars, relayAuxVars, hubVars, arbVars, extVars>>

NextTick ==
    \/ \E t \in ContextTypes : QueueContext(t)
    \/ ThoughtTick
    \/ \E i \in 1..MaxTicks : FlushPrompt(i)
    \/ \E i \in 1..MaxTicks : FlushReturn(i)
    \/ ChatAnswered

(***************************************************************************)
(* Response arbitration                                                    *)
(***************************************************************************)
Agents   == {"Blaze", "Storm"}
Messages == {"m1", "m2"}
\* the sender (username) of each message
Sender(m) == IF m = "m1" THEN "alice" ELSE "bob"

DirectlyMentioned  == "directly_mentioned"
OtherBotMentioned  == "other_bot_mentioned"
EngineDecision     == "engine"

\* ConversationCoordinator.shouldRespond: stages 1 and 2 are decided by the names in
\* the message; otherwise the cognitive engine's decision (engineRespond) is returned.
\* delay is the draw of getBaseDelay.
ShouldRespond(botName, mentions, otherBots, engineRespond, delay) ==
    IF botName \in mentions
    THEN [shouldRespond |-> TRUE, delay |-> delay, reason |-> DirectlyMentioned]
    ELSE IF \E other \in otherBots : other # botName /\ other \in mentions
    THEN [shouldRespond |-> FALSE, delay |-> 0, reason |-> OtherBotMentioned]
    ELSE IF engineRespond
    THEN [shouldRespond |-> TRUE, delay |-> delay, reason |-> EngineDecision]
    ELSE [shouldRespond |-> FALSE, delay |-> 0, reason |-> EngineDecision]

\* agent.js lines 251-257: the recheck after the delay
SomeoneElseJumpedInNever(name, reason, time, last) == FALSE

SomeoneElseJumpedInShortWindow(name, reason, time, last) ==
    /\ time - last.timestamp < ResponseWindow - 1
    /\ last.responder # name
    /\ reason # DirectlyMentioned

SomeoneElseJumpedIn(name, reason, time, last) ==
    /\ time - last.timestamp < ResponseWindow
    /\ last.responder # name
    /\ reason # DirectlyMentioned

\* respondFunc, line 200: this.shut_up = false
ShutUpAfterRespondFunc(flags, name) == [flags EXCEPT ![name] = FALSE]

\* routeResponse, line 481: if (this.shut_up) return
RouteResponse(flag) == IF flag THEN "suppressed" ELSE "emitted"

\* ConversationCoordinator.recordResponse, lines 194-199
RecordResponse(botName, username, time) ==
    [username |-> username, responder |-> botName, timestamp |-> time]

NoHandler ==
    [pc |-> "none", reason |-> NoOne, deadline |-> 0, waitedWith |-> {},
     checkedAt |-> 0, seenResponder |-> NoOne, seenTimestamp |-> 0]

InitArb ==
    /\ now = Epoch
    /\ lastResponse = [username |-> NoOne, responder |-> NoOne, timestamp |-> 0]
    /\ msgs = EmptyMap
    /\ handlers = [a \in Agents |-> [m \in Messages |-> NoHandler]]
    /\ recorded = {}
    /\ responded = {}
    /\ shut_up = [a \in Agents |-> FALSE]
    /\ hushed = {}
    /\ routed = EmptyMap

\* Someone sends a chat message naming the agents in mentions
ChatSent(m, mentions) ==
    /\ ~MapHas(msgs, m)
    /\ msgs' = MapSet(msgs, m, [mentions |-> mentions])
    /\ UNCHANGED <<now, lastResponse, handlers, recorded, responded, shut_up, hushed, routed>>
    /\ UNCHANGED <<relayVars, relayAuxVars, hubVars, tickVars, extVars>>

\* bot.on('chat') of agent a runs up to `await shouldRespond(...)`
ChatReceived(a, m) ==
    /\ MapHas(msgs, m)
    /\ handlers[a][m].pc = "none"
    /\ handlers' = [handlers EXCEPT ![a][m].pc = "deciding"]
    /\ UNCHANGED <<now, lastResponse, msgs, recorded, responded, shut_up, hushed, routed>>
    /\ UNCHANGED <<relayVars, relayAuxVars, hubVars, tickVars, extVars>>

\* shouldRespond resolved: the handler returns, commits at once (delay 0) or starts
\* its delay timer
Decided(a, m, engineRespond, delay) ==
    /\ handlers[a][m].pc = "deciding"
    /\ LET decision == ShouldRespond(a, msgs[m].mentions, Agents \ {a}, engineRespond, delay)
           waiting == {b \in Agents \ {a} : handlers[b][m].pc = "waiting"}
       IN  IF ~decision.shouldRespond
           THEN /\ handlers' = [handlers EXCEPT ![a][m].pc = "skipped",
                                                ![a][m].reason = decision.reason]
                /\ UNCHANGED <<lastResponse, recorded, responded, shut_up>>
           ELSE IF decision.delay > 0
           THEN /\ handlers' =
                       [b \in Agents |-> [k \in Messages |->
                           IF b = a /\ k = m
                           THEN [handlers[a][m] EXCEPT !.pc = "waiting",
                                                       !.reason = decision.reason,
                                                       !.deadline = now + decision.delay,
                                                       !.waitedWith = waiting]
                           ELSE IF b \in waiting /\ k = m
                           THEN [handlers[b][m] EXCEPT !.waitedWith = @ \cup {a}]
                           ELSE handlers[b][k]]]
                /\ UNCHANGED <<lastResponse, recorded, responded, shut_up>>
           ELSE /\ handlers' = [handlers EXCEPT ![a][m].pc = "responded",
                                                ![a][m].reason = decision.reason]
                /\ lastResponse' = RecordResponse(a, Sender(m), now)
                /\ recorded' = recorded \cup {<<a, m>>}
                /\ responded' = responded \cup {<<a, m>>}
                /\ shut_up' = ShutUpAfterRespondFunc(shut_up, a)
    /\ UNCHANGED <<now, msgs, hushed, routed>>
    /\ UNCHANGED <<relayVars, relayAuxVars, hubVars, tickVars, extVars>>

\* The delay timer fired (setTimeout never fires early): recheck, then return or
\* recordResponse and respondFunc
DelayElapsed(a, m) ==
    /\ handlers[a][m].pc = "waiting"
    /\ now >= handlers[a][m].deadline
    /\ LET seen == [handlers[a][m] EXCEPT !.checkedAt = now, !.deadline = 0,
                                          !.seenResponder = lastResponse.responder,
                                          !.seenTimestamp = lastResponse.timestamp]
       IN  IF SomeoneElseJumpedIn(a, handlers[a][m].reason, now, lastResponse)
           THEN /\ handlers' = [handlers EXCEPT ![a][m] = [seen EXCEPT !.pc = "aborted"]]
                /\ UNCHANGED <<lastResponse, recorded, responded, shut_up>>
           ELSE /\ handlers' = [handlers EXCEPT ![a][m] = [seen EXCEPT !.pc = "responded"]]
                /\ lastResponse' = RecordResponse(a, Sender(m), now)
                /\ recorded' = recorded \cup {<<a, m>>}
                /\ responded' = responded \cup {<<a, m>>}
                /\ shut_up' = ShutUpAfterRespondFunc(shut_up, a)
    /\ UNCHANGED <<now, msgs, hushed, routed>>
    /\ UNCHANGED <<relayVars, relayAuxVars, hubVars, tickVars, extVars>>

\* One second passes
TimePasses ==
    /\ now < Epoch + MaxTime
    /\ now' = now + 1
    /\ UNCHANGED <<lastResponse, msgs, handlers, recorded, responded, shut_up, hushed, routed>>
    /\ UNCHANGED <<relayVars, relayAuxVars, hubVars, tickVars, extVars>>

\* Agent.shutUp, line 343
ShutUp(a) ==
    /\ shut_up' = [shut_up EXCEPT ![a] = TRUE]
    /\ hushed' = hushed \cup {<<a, m>> : m \in {k \in Messages : handlers[a][k].pc = "waiting"}}
    /\ UNCHANGED <<now, lastResponse, msgs, handlers, recorded, responded, routed>>
    /\ UNCHANGED <<relayVars, relayAuxVars, hubVars, tickVars, extVars>>

\* handleMessage, started by respondFunc, reaches routeResponse with its reply
ResponseRouted(a, m) ==
    /\ <<a, m>> \in responded
    /\ ~MapHas(routed, <<a, m>>)
    /\ routed' = MapSet(routed, <<a, m>>, RouteResponse(shut_up[a]))
    /\ UNCHANGED <<now, lastResponse, msgs, handlers, recorded, responded, shut_up, hushed>>
    /\ UNCHANGED <<relayVars, relayAuxVars, hubVars, tickVars, extVars>>

\* One agent, told to shut up while its chat handlers run
NextAgent ==
    \/ \E m \in Messages, mentions \in SUBSET Agents : ChatSent(m, mentions)
    \/ \E m \in Messages : ChatReceived("Blaze", m)
    \/ \E m \in Messages, r \in BOOLEAN, d \in 0..MaxDelay : Decided("Blaze", m, r, d)
    \/ \E m \in Messages : DelayElapsed("Blaze", m)
    \/ TimePasses
    \/ ShutUp("Blaze")
    \/ \E m \in Messages : ResponseRouted("Blaze", m)

NextArb ==
    \/ \E m \in Messages, mentions \in SUBSET Agents : ChatSent(m, mentions)
    \/ \E a \in Agents, m \in Messages : ChatReceived(a, m)
    \/ \E a \in Agents, m \in Messages, r \in BOOLEAN, d \in 0..MaxDelay : Decided(a, m, r, d)
    \/ \E a \in Agents, m \in Messages : DelayElapsed(a, m)
    \/ TimePasses

(***************************************************************************)
(* Response decision: ConversationCoordinator.shouldRespond and            *)
(* CognitiveEngine.shouldRespond                                           *)
(***************************************************************************)
\* ---- strings ----
CharAt(s, i) == SubSeq(s, i, i)

\* String.prototype.includes
StrIncludes(s, p) == \E i \in 1..(Len(s) - Len(p) + 1) : SubSeq(s, i, i + Len(p) - 1) = p

UpperChars == "ABCDEFGHIJKLMNOPQRSTUVWXYZ"
LowerChars == "abcdefghijklmnopqrstuvwxyz"
Digits     == "0123456789"
LowerOf == [c \in {CharAt(UpperChars, i) : i \in 1..26} |->
               CharAt(LowerChars, CHOOSE i \in 1..26 : CharAt(UpperChars, i) = c)]

\* String.prototype.toLowerCase
RECURSIVE ToLowerCase(_)
ToLowerCase(s) ==
    IF s = "" THEN ""
    ELSE LET c == CharAt(s, 1)
         IN  (IF c \in DOMAIN LowerOf THEN LowerOf[c] ELSE c)
                 \o ToLowerCase(SubSeq(s, 2, Len(s)))

Whitespace == {" ", "\n", "\t"}

\* String.prototype.trim
Trim(s) ==
    LET solid == {i \in 1..Len(s) : CharAt(s, i) \notin Whitespace}
    IN  IF solid = {} THEN ""
        ELSE SubSeq(s, CHOOSE i \in solid : \A j \in solid : i <= j,
                       CHOOSE i \in solid : \A j \in solid : j <= i)

\* s.split(/[\s\n.,!?]/)[0]
FirstField(s) ==
    LET seps == {i \in 1..Len(s) : CharAt(s, i) \in Whitespace \cup {".", ",", "!", "?"}}
    IN  IF seps = {} THEN s
        ELSE SubSeq(s, 1, (CHOOSE i \in seps : \A j \in seps : i <= j) - 1)

\* s.split('\n')
RECURSIVE SplitLines(_)
SplitLines(s) ==
    LET breaks == {i \in 1..Len(s) : CharAt(s, i) = "\n"}
    IN  IF breaks = {} THEN <<s>>
        ELSE LET b == CHOOSE i \in breaks : \A j \in breaks : i <= j
             IN  <<SubSeq(s, 1, b - 1)>> \o SplitLines(SubSeq(s, b + 1, Len(s)))

\* lines.join('\n')
RECURSIVE JoinLines(_)
JoinLines(lines) ==
    IF lines = <<>> THEN ""
    ELSE IF Len(lines) = 1 THEN lines[1]
    ELSE lines[1] \o "\n" \o JoinLines(Tail(lines))

\* arr.slice(-n)
SliceLast(arr, n) ==
    IF Len(arr) <= n THEN arr ELSE SubSeq(arr, Len(arr) - n + 1, Len(arr))

WordChars == {CharAt(UpperChars, i) : i \in 1..26} \cup {CharAt(LowerChars, i) : i \in 1..26}
                 \cup {CharAt(Digits, i) : i \in 1..10} \cup {"_"}
NoMatch == ""

\* line.match(/^(\w+):/): the speaker, or NoMatch
MatchSpeaker(line) ==
    LET colons == {i \in 1..Len(line) : CharAt(line, i) = ":"}
    IN  IF colons = {} THEN NoMatch
        ELSE LET c == CHOOSE i \in colons : \A j \in colons : i <= j
             IN  IF c > 1 /\ \A j \in 1..(c - 1) : CharAt(line, j) \in WordChars
                 THEN SubSeq(line, 1, c - 1)
                 ELSE NoMatch

\* ---- SoulStateManager ----
\* cognitive_engine.js line 792: this.maxRecentMessages = 8
MaxRecentMessages == 8
\* conversation_coordinator.js line 88: getRecentContext(4)
ContextLimit == 4
\* cognitive_engine.js line 305: lines.slice(-8)
ThrottleWindow == 8

\* recordMessage, lines 805-815
RecordMessage(recent, sender, message) ==
    LET pushed == Append(recent, [sender |-> sender, message |-> message])
    IN  IF Len(pushed) > MaxRecentMessages THEN Tail(pushed) ELSE pushed

\* getRecentContext, lines 834-839
GetRecentContext(recent, limit) ==
    LET last == SliceLast(recent, limit)
    IN  JoinLines([i \in 1..Len(last) |-> last[i].sender \o ": " \o last[i].message])

\* ---- CognitiveEngine ----
FarewellPhrases ==
    << "bye", "goodbye", "see you", "see ya", "cya", "later", "take care",
       "catch you", "talk to you", "until next", "for now", "gotta go",
       "heading out", "signing off", "peace out", "farewell" >>

AgreementPhrases ==
    << "sounds good", "got it", "understood", "will do", "on it", "roger",
       "alright", "okay", "ok", "sure thing", "no problem", "np",
       "you too", "same to you", "likewise", "back at you",
       "agreed", "exactly", "right", "same", "true", "indeed", "yep", "yeah" >>

IncludesAny(s, phrases) == \E i \in 1..Len(phrases) : StrIncludes(s, phrases[i])

HostileEmotions == {"angry", "frustrated", "annoyed", "irritated"}
JoyfulEmotions  == {"happy", "excited", "playful"}

\* quickEmotionCheck, lines 190-238
QuickEmotionCheck(message, botName, currentEmotion) ==
    LET msgLower == ToLowerCase(message)
        botLower == ToLowerCase(botName)
    IN  IF IncludesAny(msgLower, <<"stupid", "idiot", "useless">>) THEN "angry"
        ELSE IF IncludesAny(msgLower, <<"shut up", "be quiet", "stop talking">>) THEN "annoyed"
        ELSE IF IncludesAny(msgLower, <<"you suck", "youre bad", "you're bad">>) THEN "frustrated"
        ELSE IF IncludesAny(msgLower, <<"hurry up", "faster", "too slow">>) THEN "irritated"
        ELSE IF IncludesAny(msgLower, <<"good job", "nice work", "well done">>) THEN "proud"
        ELSE IF IncludesAny(msgLower, <<"thank", "appreciate">>) THEN "grateful"
        ELSE IF StrIncludes(msgLower, "!")
                /\ IncludesAny(msgLower, <<"awesome", "amazing", "cool">>) THEN "excited"
        ELSE IF StrIncludes(msgLower, "what") /\ StrIncludes(msgLower, "?") THEN "curious"
        ELSE IF IncludesAny(msgLower, <<"check out", "look at", "found something">>) THEN "curious"
        ELSE IF StrIncludes(msgLower, botLower) THEN "focused"
        ELSE IF StrIncludes(message, "?") THEN "helpful"
        ELSE currentEmotion

\* lines 300-315: the exchanges counted between botName and sender
RECURSIVE CountExchanges(_, _, _, _, _)
CountExchanges(lines, idx, lastSpeaker, botName, sender) ==
    IF idx > Len(lines) THEN 0
    ELSE LET speaker == MatchSpeaker(lines[idx])
         IN  IF speaker = NoMatch
             THEN CountExchanges(lines, idx + 1, lastSpeaker, botName, sender)
             ELSE (IF \/ (speaker = botName /\ lastSpeaker = sender)
                      \/ (speaker = sender /\ lastSpeaker = botName)
                   THEN 1 ELSE 0)
                  + CountExchanges(lines, idx + 1, speaker, botName, sender)

BackAndForthCount(recentContext, botName, sender) ==
    LET lines == SelectSeq(SplitLines(recentContext), LAMBDA l : Trim(l) # "")
    IN  CountExchanges(SliceLast(lines, ThrottleWindow), 1, "", botName, sender)

\* line 320: Math.min(0.95, 0.6 + count * 0.15), in hundredths
SkipChance(count) == IF 60 + count * 15 < 95 THEN 60 + count * 15 ELSE 95

\* line 321
ThrottleSkips(count, draw) == count >= 2 /\ (draw < SkipChance(count) \/ count >= 4)

\* query's return value seen by its caller: null, or the reply's content
QueryFailed == [isNull |-> TRUE, text |-> ""]
QueryReply(text) == [isNull |-> FALSE, text |-> text]

\* lines 355-361: the verdict parsed from the reply
Verdicts == {"respond", "skip", "wait"}

ParseDecision(result) ==
    LET rawDecision == Trim(ToLowerCase(IF result.isNull \/ result.text = ""
                                        THEN "skip" ELSE result.text))
        firstWord == FirstField(rawDecision)
    IN  IF firstWord \in Verdicts THEN firstWord
        ELSE IF StrIncludes(rawDecision, "respond") THEN "respond"
        ELSE IF StrIncludes(rawDecision, "skip") THEN "skip"
        ELSE "wait"

\* lines 374-377 without 'useless'
IsProvocationWithoutUseless(message, botName) ==
    LET msgLower == ToLowerCase(message)
    IN  \/ StrIncludes(msgLower, ToLowerCase(botName))
        \/ IncludesAny(msgLower, <<"stupid", "you suck", "shut up">>)

\* lines 374-377
IsProvocation(message, botName) ==
    LET msgLower == ToLowerCase(message)
    IN  \/ StrIncludes(msgLower, ToLowerCase(botName))
        \/ IncludesAny(msgLower, <<"stupid", "useless", "you suck", "shut up">>)

\* a return before line 354; `queries` counts the calls of this.query so far
EarlyReturnAfterQuery(reason, emotion, count) ==
    [shouldRespond |-> FALSE, reason |-> reason, emotion |-> emotion,
     queries |-> 1, backAndForthCount |-> count, verdict |-> "none"]

EarlyReturn(reason, emotion, count) ==
    [shouldRespond |-> FALSE, reason |-> reason, emotion |-> emotion,
     queries |-> 0, backAndForthCount |-> count, verdict |-> "none"]

\* lines 354-417: from the query to the return
AfterQuery(p, count) ==
    LET decision == ParseDecision(p.oracle)
        shouldRespond == decision = "respond"
        emotion == QuickEmotionCheck(p.message, p.botName, p.personality.currentEmotion)
        answer(respond, reason) ==
            [shouldRespond |-> respond, reason |-> reason, emotion |-> emotion,
             queries |-> 1, backAndForthCount |-> count, verdict |-> decision]
    IN  IF ~shouldRespond /\ emotion \in HostileEmotions /\ IsProvocation(p.message, p.botName)
        THEN answer(TRUE, "provoked")
        ELSE IF ~shouldRespond /\ emotion \in JoyfulEmotions /\ p.personality.isExtroverted
                /\ p.rand.emotion < 30
        THEN answer(TRUE, "enthusiastic")
        ELSE IF shouldRespond /\ emotion = "bored" /\ p.rand.emotion < 40
        THEN answer(FALSE, "too_bored")
        ELSE answer(shouldRespond, decision)

\* CognitiveEngine.shouldRespond, lines 245-418
EngineShouldRespond(p) ==
    LET msgLower == Trim(ToLowerCase(p.message))
        current == p.personality.currentEmotion
        count == IF p.recentContext = "" THEN 0
                 ELSE BackAndForthCount(p.recentContext, p.botName, p.sender)
    IN  IF IncludesAny(msgLower, FarewellPhrases)
        THEN EarlyReturn("farewell_detected", current, -1)
        ELSE IF Len(msgLower) < 50 /\ IncludesAny(msgLower, AgreementPhrases)
        THEN EarlyReturn("acknowledgment", current, -1)
        ELSE IF ThrottleSkips(count, p.rand.throttle)
        THEN EarlyReturn("conversation_limit", current, count)
        ELSE AfterQuery(p, count)

\* ---- ConversationCoordinator ----
\* getBaseDelay, lines 168-185: multipliers in hundredths, draw in hundredths
UrgencyFactor(urgency) ==
    CASE urgency = "fast" -> 50
      [] urgency = "slow" -> 150
      [] urgency = "very_slow" -> 250
      [] OTHER -> 100

EmotionFactor(emotion) ==
    CASE emotion = "excited" -> 70
      [] emotion = "cautious" -> 130
      [] emotion = "bored" -> 150
      [] OTHER -> 100

GetBaseDelay(emotion, urgency, draw) ==
    LET multiplier == UrgencyFactor(urgency) * EmotionFactor(emotion)
        min == (2000 * multiplier) \div 10000
        max == (5000 * multiplier) \div 10000
    IN  (draw * (max - min)) \div 100 + min

\* lines 104-113
Urgency(emotion) ==
    IF emotion \in {"angry", "frustrated", "irritated", "excited", "happy"} THEN "fast"
    ELSE IF emotion \in {"bored", "tired", "cautious", "worried"} THEN "slow"
    ELSE "normal"

\* simpleFallback, lines 135-163
SimpleFallback(in) ==
    LET answer(respond, reason, urgency) ==
            [shouldRespond |-> respond, reason |-> reason, emotion |-> "none",
             urgency |-> urgency,
             delay |-> IF respond
                       THEN GetBaseDelay(in.personality.currentEmotion, urgency, in.rand.delay)
                       ELSE 0,
             queries |-> 0, backAndForthCount |-> -1, verdict |-> "none",
             path |-> "simpleFallback"]
    IN  IF in.someoneJustResponded THEN answer(FALSE, "someone_responded", "none")
        ELSE IF StrIncludes(in.message, "?") THEN answer(TRUE, "question", "normal")
        ELSE IF in.rand.fallback < 20 THEN answer(TRUE, "random", "slow")
        ELSE answer(FALSE, "skipped", "none")

\* line 62 without the lower-casing
IsDirectlyMentionedCaseSensitive(message, botName) == StrIncludes(message, botName)

\* line 62
IsDirectlyMentioned(message, botName) ==
    StrIncludes(ToLowerCase(message), ToLowerCase(botName))

\* lines 72-75
MentionedOther(message, botName, otherBots) ==
    \E i \in 1..Len(otherBots) :
        /\ ToLowerCase(otherBots[i]) # ToLowerCase(botName)
        /\ StrIncludes(ToLowerCase(message), ToLowerCase(otherBots[i]))

\* ConversationCoordinator.shouldRespond, lines 56-130, with
\* soulStateManager.recentMessages = recent
CoordinatorShouldRespond(in, recent) ==
    IF IsDirectlyMentioned(in.message, in.botName)
    THEN [shouldRespond |-> TRUE, reason |-> "directly_mentioned", emotion |-> "none",
          urgency |-> "fast", delay |-> GetBaseDelay("attentive", "fast", in.rand.delay),
          queries |-> 0, backAndForthCount |-> -1, verdict |-> "none",
          path |-> "coordinator"]
    ELSE IF MentionedOther(in.message, in.botName, in.otherBots)
    THEN [shouldRespond |-> FALSE, reason |-> "other_bot_mentioned", emotion |-> "none",
          urgency |-> "none", delay |-> 0,
          queries |-> 0, backAndForthCount |-> -1, verdict |-> "none",
          path |-> "coordinator"]
    ELSE IF ~in.engineAvailable
    THEN SimpleFallback(in)
    ELSE LET decision == EngineShouldRespond(
                 [botName |-> in.botName, message |-> in.message, sender |-> in.username,
                  recentContext |-> GetRecentContext(recent, ContextLimit),
                  personality |-> in.personality, oracle |-> in.oracle, rand |-> in.rand])
             urgency == IF decision.shouldRespond THEN Urgency(decision.emotion) ELSE "none"
         IN  [shouldRespond |-> decision.shouldRespond, reason |-> decision.reason,
              emotion |-> decision.emotion, urgency |-> urgency,
              delay |-> IF decision.shouldRespond
                        THEN GetBaseDelay(decision.emotion, urgency, in.rand.delay)
                        ELSE 0,
              queries |-> decision.queries,
              backAndForthCount |-> decision.backAndForthCount,
              verdict |-> decision.verdict, path |-> "engine"]

\* ---- the inputs of one chat event ----
BotName == "Blaze"
ChatSender == "Storm"
OtherAgents == <<"Storm", "Frost">>   \* serverProxy.getOtherAgentNames()

ChatTexts ==
    { "hey BLAZE come here", "bye blaze", "ok Blaze and Frost", "Frost where are you?",
      "See you later", "sounds good", "bye?",
      "that is exactly what we planned for the mine tomorrow morning",
      "where is the village?", "you are useless", "SHUT UP", "i found diamonds",
      "awesome cave!" }

OracleOutcomes ==
    { QueryFailed, QueryReply("Respond."), QueryReply("skip"), QueryReply("wait"),
      QueryReply("do not respond"), QueryReply("maybe") }

Personalities ==
    { [isExtroverted |-> FALSE, currentEmotion |-> "calm"],
      [isExtroverted |-> TRUE,  currentEmotion |-> "happy"],
      [isExtroverted |-> FALSE, currentEmotion |-> "bored"],
      [isExtroverted |-> FALSE, currentEmotion |-> "angry"] }

\* Math.random() at each site, in hundredths
ThrottleDraws == {10, 96}
EmotionDraws  == {10, 50}
FallbackDraws == {10, 50}
DelayDraw     == 50

EngineInputs ==
    { [botName |-> BotName, username |-> ChatSender, message |-> m, otherBots |-> OtherAgents,
       personality |-> p, engineAvailable |-> TRUE, oracle |-> o,
       someoneJustResponded |-> FALSE,
       rand |-> [throttle |-> t, emotion |-> e, fallback |-> 50, delay |-> DelayDraw]] :
      m \in ChatTexts, p \in Personalities, o \in OracleOutcomes,
      t \in ThrottleDraws, e \in EmotionDraws }

FallbackInputs ==
    { [botName |-> BotName, username |-> ChatSender, message |-> m, otherBots |-> OtherAgents,
       personality |-> p, engineAvailable |-> FALSE, oracle |-> QueryFailed,
       someoneJustResponded |-> j,
       rand |-> [throttle |-> 10, emotion |-> 10, fallback |-> f, delay |-> DelayDraw]] :
      m \in ChatTexts, p \in Personalities, j \in BOOLEAN, f \in FallbackDraws }

\* the chat so far: n lines that alternate between the sender and the bot,
\* the bot's being the last
AlternatingHistory(n) ==
    [i \in 1..n |-> [sender |-> IF (n - i) % 2 = 0 THEN BotName ELSE ChatSender,
                     message |-> "hi"]]

Histories ==
    {AlternatingHistory(n) : n \in 0..MaxHistory}
        \cup { << [sender |-> "Frost", message |-> "hi"], [sender |-> ChatSender, message |-> "hi"] >> }

NoDecision == [op |-> "none"]

InitDecideFrom(history) ==
    /\ recentMessages = history
    /\ decideLast = NoDecision

\* the first chat event of the process
InitDecide == InitDecideFrom(<<>>)

\* bot.on('chat'), agent.js lines 222-239: recordIncomingMessage, then the decision
ChatDecision(in) ==
    /\ decideLast = NoDecision
    /\ recentMessages' = RecordMessage(recentMessages, in.username, in.message)
    /\ decideLast' = [op |-> "chat", in |-> in,
                      out |-> CoordinatorShouldRespond(in, recentMessages')]
    /\ UNCHANGED <<relayVars, relayAuxVars, hubVars, tickVars, arbVars, relVars, queryVars,
                   soulVars, relationshipVars>>

NextDecide ==
    \/ \E in \in EngineInputs : ChatDecision(in)
    \/ \E in \in FallbackInputs : ChatDecision(in)

(***************************************************************************)
(* CognitiveEngine.query and its cache                                     *)
(***************************************************************************)
\* cognitive_engine.js line 17: this.cacheTimeout = 30000, here in units of 10 s
CacheTimeout == 3
NoCacheKey == ""        \* cacheKey = null, the default
CacheKeys == {"k1"}
QueryOptions == { [useCache |-> FALSE, cacheKey |-> NoCacheKey] }
                    \cup [useCache : BOOLEAN, cacheKey : CacheKeys]
\* the outbound call number id throws, or returns a reply of its own:
\* resp.choices[0]?.message?.content
ReplyTexts == <<"reply 0", "reply 1", "reply 2", "reply 3", "reply 4", "reply 5">>
CallOutcomes(id) == { [ok |-> FALSE, content |-> ""], [ok |-> TRUE, content |-> ReplyTexts[id + 1]] }

\* line 43 and line 60: useCache && cacheKey
CacheEnabled(opts) == opts.useCache /\ opts.cacheKey # NoCacheKey

CacheHitNever(c, opts, time) == FALSE

\* lines 43-48
CacheHit(c, opts, time) ==
    /\ CacheEnabled(opts)
    /\ MapHas(c, opts.cacheKey)
    /\ time - c[opts.cacheKey].timestamp < CacheTimeout

InitQuery ==
    /\ cache = EmptyMap
    /\ queryClock = 0
    /\ inflight = {}
    /\ queryLog = <<>>

\* query, lines 34-56: up to the return of a cached result or to the await
QueryCall(opts) ==
    /\ Len(queryLog) + Cardinality(inflight) < MaxQueries
    /\ IF CacheHit(cache, opts, queryClock)
       THEN /\ queryLog' = Append(queryLog,
                               [opts |-> opts, issued |-> queryClock,
                                issuedAfter |-> Len(queryLog), returned |-> queryClock,
                                result |-> QueryReply(cache[opts.cacheKey].result),
                                outbound |-> FALSE])
            /\ UNCHANGED inflight
       ELSE /\ inflight' = inflight \cup
                               {[id |-> Len(queryLog) + Cardinality(inflight), opts |-> opts,
                                 issued |-> queryClock, issuedAfter |-> Len(queryLog)]}
            /\ UNCHANGED queryLog
    /\ UNCHANGED <<cache, queryClock>>
    /\ UNCHANGED <<relayVars, relayAuxVars, hubVars, tickVars, arbVars, relVars, decideVars,
                   soulVars, relationshipVars>>

\* query, lines 57-69: the outbound call returned or threw
QueryReturn(q, outcome) ==
    /\ inflight' = inflight \ {q}
    /\ cache' = IF outcome.ok /\ CacheEnabled(q.opts)
                THEN MapSet(cache, q.opts.cacheKey,
                            [result |-> outcome.content, timestamp |-> queryClock])
                ELSE cache
    /\ queryLog' = Append(queryLog,
                          [opts |-> q.opts, issued |-> q.issued,
                           issuedAfter |-> q.issuedAfter, returned |-> queryClock,
                           result |-> IF outcome.ok THEN QueryReply(outcome.content)
                                                    ELSE QueryFailed,
                           outbound |-> TRUE])
    /\ UNCHANGED queryClock
    /\ UNCHANGED <<relayVars, relayAuxVars, hubVars, tickVars, arbVars, relVars, decideVars,
                   soulVars, relationshipVars>>

\* Date.now() is only read against the timestamps in the cache
QueryTimePasses ==
    /\ cache # EmptyMap
    /\ queryClock < MaxQueryTime
    /\ queryClock' = queryClock + 1
    /\ UNCHANGED <<cache, inflight, queryLog>>
    /\ UNCHANGED <<relayVars, relayAuxVars, hubVars, tickVars, arbVars, relVars, decideVars,
                   soulVars, relationshipVars>>

NextQuery ==
    \/ \E opts \in QueryOptions : QueryCall(opts)
    \/ \E q \in inflight : \E outcome \in CallOutcomes(q.id) : QueryReturn(q, outcome)
    \/ QueryTimePasses

(***************************************************************************)
(* Emotional state (SoulState of cognitive_engine.js)                      *)
(* Intensities, frustration and traits are counted in thousandths: Milli   *)
(* stands for 1.0.  Date.now() is counted in minutes.                      *)
(***************************************************************************)
Milli == 10 * 100

MathMin(a, b) == IF a < b THEN a ELSE b

MathMax(a, b) == IF a > b THEN a ELSE b

\* A clamp that lets every value through
ClampUnitNone(x) == x

\* Math.max(0, Math.min(1, x))
ClampUnit(x) == MathMax(0, MathMin(Milli, x))

\* x || 0.5: a trait that is unset and a trait of 0 both read as 0.5
OrHalf(x) == IF x = 0 THEN Milli \div 2 ELSE x

EmotionDecayRate == 100

\* decayTime = 60000 ms
DecayTime == 1

EmotionHistoryLimit == 10

\* the intensity at which a decaying emotion gives way to calm
SettledIntensity == 300

FrustratingEmotions == {"angry", "frustrated", "annoyed", "irritated"}

SoothingEmotions == {"happy", "calm", "grateful"}

\* 0.5 + volatility * 0.5
VolatilityFactor(volatility) == (Milli \div 2) + (volatility \div 2)

\* A request for anger that is applied as asked whatever the frustration
DowngradeAngerNever(emotion, frustrationLevel, angerThreshold) == emotion

\* The emotion setEmotion goes on with: anger needs the frustration to have
\* reached the anger threshold
DowngradeAnger(emotion, frustrationLevel, angerThreshold) ==
    IF emotion = "angry" /\ frustrationLevel < angerThreshold
    THEN IF 2 * frustrationLevel > angerThreshold THEN "frustrated" ELSE "annoyed"
    ELSE emotion

\* Stoic personalities that are calm roll against their resistance;
\* random is the value Math.random() returned
ResistsChange(s, random) ==
    LET changeResistance == Milli - OrHalf(s.personality.emotionalVolatility)
    IN  /\ 2 * changeResistance > Milli
        /\ s.emotion = "calm"
        /\ random < changeResistance - 300

\* SoulState.setEmotion(requested, intensity) called at time `time`
SetEmotion(s, requested, intensity, random, time) ==
    LET volatility      == OrHalf(s.personality.emotionalVolatility)
        angerThreshold  == OrHalf(s.personality.angerThreshold)
        emotion         == DowngradeAnger(requested, s.frustrationLevel, angerThreshold)
        frustrationGain == VolatilityFactor(volatility) \div 5
    IN  IF ResistsChange(s, random)
        THEN s
        ELSE [s EXCEPT
                !.emotion = emotion,
                !.emotionIntensity =
                    ClampUnit((intensity * VolatilityFactor(volatility)) \div Milli),
                !.lastEmotionChange = time,
                !.emotionHistory = MathMin(@ + 1, EmotionHistoryLimit),
                !.personality.currentEmotion = emotion,
                !.frustrationLevel =
                    IF emotion \in FrustratingEmotions
                    THEN MathMin(Milli, @ + frustrationGain)
                    ELSE IF emotion \in SoothingEmotions
                         THEN MathMax(0, @ - 100)
                         ELSE @]

\* SoulState.decayEmotion() called at time `time`
DecayEmotion(s, time) ==
    IF /\ time - s.lastEmotionChange > DecayTime
       /\ s.emotion # "calm"
       /\ s.emotionIntensity > SettledIntensity
    THEN LET decayed == [s EXCEPT !.emotionIntensity =
                                     MathMax(SettledIntensity, @ - EmotionDecayRate)]
         IN  IF decayed.emotionIntensity <= SettledIntensity
             THEN SetEmotion(decayed, "calm", Milli \div 2, 0, time)
             ELSE decayed
    ELSE s

\* The traits a profile may give: unset (0), and values over the range of a trait
Volatilities == {0, 200, Milli}

AngerThresholds == {0, 200, 900}

SoulPersonalities ==
    [emotionalVolatility : Volatilities, angerThreshold : AngerThresholds,
     currentEmotion : {"undefined"}]

\* calm and happy soothe, angry frustrates, sad does neither
EmotionRequests == {"calm", "angry", "happy", "sad"}

\* intensity arguments, some of them outside 0..1
IntensityArguments == {-500, 500, 2 * Milli}

\* outcomes of Math.random()
RandomDraws == {250, 750}

NoSoulCall == [op |-> "none", requested |-> "none", resisted |-> FALSE,
               raw |-> 0, frustrationBefore |-> 0]

InitSoulWith(personality) ==
    /\ soul = [emotion |-> "calm", emotionIntensity |-> Milli \div 2,
               lastEmotionChange |-> 0, emotionHistory |-> 0,
               frustrationLevel |-> 0, personality |-> personality]
    /\ soulClock = 0
    /\ soulLast = NoSoulCall
    /\ soulOps = 0

InitSoul ==
    InitSoulWith([emotionalVolatility |-> 0, angerThreshold |-> 0,
                  currentEmotion |-> "undefined"])

SetEmotionCall(emotion, intensity, random) ==
    /\ soulOps < MaxSoulOps
    /\ soul' = SetEmotion(soul, emotion, intensity, random, soulClock)
    /\ soulLast' = [op |-> "setEmotion", requested |-> emotion,
                    resisted |-> ResistsChange(soul, random),
                    raw |-> (intensity *
                             VolatilityFactor(OrHalf(soul.personality.emotionalVolatility)))
                            \div Milli,
                    frustrationBefore |-> soul.frustrationLevel]
    /\ soulOps' = soulOps + 1
    /\ UNCHANGED soulClock
    /\ UNCHANGED <<relayVars, relayAuxVars, hubVars, tickVars, arbVars,
                   relVars, decideVars, queryVars, relationshipVars>>

DecayEmotionCall ==
    /\ soulOps < MaxSoulOps
    /\ soul' = DecayEmotion(soul, soulClock)
    /\ soulLast' = [op |-> "decayEmotion", requested |-> "none", resisted |-> FALSE,
                    raw |-> soul.emotionIntensity - EmotionDecayRate,
                    frustrationBefore |-> soul.frustrationLevel]
    /\ soulOps' = soulOps + 1
    /\ UNCHANGED soulClock
    /\ UNCHANGED <<relayVars, relayAuxVars, hubVars, tickVars, arbVars,
                   relVars, decideVars, queryVars, relationshipVars>>

SoulTimePasses ==
    /\ soulClock < MaxSoulTime
    /\ soulClock' = soulClock + 1
    /\ UNCHANGED <<soul, soulLast, soulOps>>
    /\ UNCHANGED <<relayVars, relayAuxVars, hubVars, tickVars, arbVars,
                   relVars, decideVars, queryVars, relationshipVars>>

NextSoul ==
    \/ \E emotion \in EmotionRequests, intensity \in IntensityArguments,
          random \in RandomDraws : SetEmotionCall(emotion, intensity, random)
    \/ DecayEmotionCall
    \/ SoulTimePasses

(***************************************************************************)
(* One Relationship of relationship_manager.js                             *)
(* trust, fondness and respect are counted in ten-thousandths: Myriad      *)
(* stands for 1.0, and a product is cut to that precision.                 *)
(***************************************************************************)
Myriad == 100 * 100

Magnitude(x) == IF x < 0 THEN -x ELSE x

\* a / b cut towards zero, for b > 0
Quotient(a, b) == IF a >= 0 THEN a \div b ELSE -((-a) \div b)

ImpactMap ==
    [helped           |-> [trust |-> 1000,  fondness |-> 1000,  respect |-> 500],
     complimented     |-> [trust |-> 500,   fondness |-> 1500,  respect |-> 500],
     thanked          |-> [trust |-> 500,   fondness |-> 1000,  respect |-> 500],
     gifted           |-> [trust |-> 1000,  fondness |-> 2000,  respect |-> 1000],
     defended         |-> [trust |-> 1500,  fondness |-> 1500,  respect |-> 1000],
     goodConversation |-> [trust |-> 500,   fondness |-> 1000,  respect |-> 500],
     laughedTogether  |-> [trust |-> 500,   fondness |-> 1500,  respect |-> 0],
     sharedGoal       |-> [trust |-> 1000,  fondness |-> 1000,  respect |-> 1000],
     insulted         |-> [trust |-> -1500, fondness |-> -2000, respect |-> -1000],
     ignored          |-> [trust |-> -500,  fondness |-> -1000, respect |-> -500],
     attacked         |-> [trust |-> -3000, fondness |-> -3000, respect |-> -1000],
     betrayed         |-> [trust |-> -4000, fondness |-> -3000, respect |-> -2000],
     mocked           |-> [trust |-> -1000, fondness |-> -1500, respect |-> -1000],
     interrupted      |-> [trust |-> -500,  fondness |-> -500,  respect |-> -1000],
     commanded        |-> [trust |-> 0,     fondness |-> -500,  respect |-> -500],
     dismissed        |-> [trust |-> -1000, fondness |-> -1000, respect |-> -1500],
     collaborated     |-> [trust |-> 500,   fondness |-> 500,   respect |-> 1000],
     chatted          |-> [trust |-> 200,   fondness |-> 300,   respect |-> 0],
     observed         |-> [trust |-> 0,     fondness |-> 0,     respect |-> 200]]

\* impactMap[type] || { trust: 0, fondness: 0, respect: 0 }
Impact(type) ==
    IF type \in DOMAIN ImpactMap THEN ImpactMap[type]
    ELSE [trust |-> 0, fondness |-> 0, respect |-> 0]

\* Relationship.applyChange: delta * (1 - |current| * 0.5), clamped to -1..1
ApplyChange(current, delta) ==
    LET effectiveDelta ==
            Quotient(delta * (2 * Myriad - Magnitude(current)), 2 * Myriad)
    IN  MathMax(-Myriad, MathMin(Myriad, current + effectiveDelta))

MaxMemories == 10

\* Relationship.addMemory
AddMemory(r, type) ==
    LET emotional == IF r.fondness > 3000 THEN "positive"
                     ELSE IF r.fondness < -3000 THEN "negative" ELSE "neutral"
        pushed == Append(r.memories, [type |-> type, emotional |-> emotional])
    IN  [r EXCEPT !.memories = IF Len(pushed) > MaxMemories THEN Tail(pushed) ELSE pushed]

\* A relationship whose type is left as it was
UpdateTypeNever(r) == r

\* Relationship.updateType: avg = (trust + fondness + respect) / 3
UpdateType(r) ==
    LET sum == r.trust + r.fondness + r.respect
    IN  [r EXCEPT !.type =
            IF sum > 3 * 6000 THEN "bestFriend"
            ELSE IF sum > 3 * 3000 THEN "friend"
            ELSE IF sum > 3 * 1000 THEN "acquaintance"
            ELSE IF sum > 3 * (-2000) THEN "stranger"
            ELSE IF sum > 3 * (-5000) THEN "rival"
            ELSE "enemy"]

\* Relationship.recordInteraction(type), the time-th call
RecordInteraction(r, type, time) ==
    LET impact == Impact(type)
        changed == [r EXCEPT
                      !.totalInteractions = @ + 1,
                      !.lastInteraction = time,
                      !.trust = ApplyChange(@, impact.trust),
                      !.fondness = ApplyChange(@, impact.fondness),
                      !.respect = ApplyChange(@, impact.respect),
                      !.positiveInteractions = IF impact.fondness > 0 THEN @ + 1 ELSE @,
                      !.negativeInteractions = IF impact.fondness < 0 THEN @ + 1 ELSE @]
        remembered == IF Magnitude(impact.fondness) >= 1000 \/ Magnitude(impact.trust) >= 1000
                      THEN AddMemory(changed, type)
                      ELSE changed
    IN  UpdateType(remembered)

\* Relationship.decay(hours): each metric times 1 - 0.01 * hours
Decay(r, hours) ==
    UpdateType([r EXCEPT !.trust = Quotient(@ * (100 - hours), 100),
                         !.fondness = Quotient(@ * (100 - hours), 100),
                         !.respect = Quotient(@ * (100 - hours), 100)])

\* the interaction types of impactMap and one that is not in it
InteractionTypes == DOMAIN ImpactMap \cup {"waved"}

\* hours arguments of decay: none, the default, a day, and more than a hundred
DecayHours == {0, 1, 24, 100, 150, 250}

NewRelationship ==
    [trust |-> 0, fondness |-> 0, respect |-> 0,
     totalInteractions |-> 0, positiveInteractions |-> 0, negativeInteractions |-> 0,
     lastInteraction |-> 0, memories |-> <<>>, type |-> "stranger"]

NoRelationshipCall == [op |-> "none", arg |-> "none", hours |-> 0, before |-> NewRelationship]

InitRelationship ==
    /\ relationship = NewRelationship
    /\ relationshipLast = NoRelationshipCall
    /\ relationshipOps = 0

RecordInteractionCall(type) ==
    /\ relationshipOps < MaxRelationshipOps
    /\ relationship' = RecordInteraction(relationship, type, relationshipOps + 1)
    /\ relationshipLast' = [op |-> "recordInteraction", arg |-> type, hours |-> 0,
                            before |-> relationship]
    /\ relationshipOps' = relationshipOps + 1
    /\ UNCHANGED <<relayVars, relayAuxVars, hubVars, tickVars, arbVars,
                   relVars, decideVars, queryVars, soulVars>>

DecayCall(hours) ==
    /\ relationshipOps < MaxRelationshipOps
    /\ relationship' = Decay(relationship, hours)
    /\ relationshipLast' = [op |-> "decay", arg |-> "none", hours |-> hours,
                            before |-> relationship]
    /\ relationshipOps' = relationshipOps + 1
    /\ UNCHANGED <<relayVars, relayAuxVars, hubVars, tickVars, arbVars,
                   relVars, decideVars, queryVars, soulVars>>

NextRelationship ==
    \/ \E type \in InteractionTypes : RecordInteractionCall(type)
    \/ \E hours \in DecayHours : DecayCall(hours)

(***************************************************************************)
(* Specifications                                                          *)
(***************************************************************************)
InitCore == InitRelay /\ InitHub /\ InitTick /\ InitArb

InitPerson == InitSoul /\ InitRelationship

Init == InitCore /\ InitRelationships /\ InitDecide /\ InitQuery /\ InitPerson

Next == \/ NextRelay \/ NextRelayStatus \/ NextHub \/ NextTick \/ NextArb \/ NextAgent
        \/ NextRelationships \/ NextDecide \/ NextQuery
        \/ NextSoul \/ NextRelationship

Spec == Init /\ [][Next]_vars

\* The relay and the arbitration are checked beside one fixed leader configuration
InitFixedLeader == Init /\ isLeader = TRUE /\ assignedWorkers = <<>>

SpecRelay == InitFixedLeader /\ [][NextRelay]_vars

SpecRelayStatus == InitFixedLeader /\ [][NextRelayStatus]_vars

SpecHub == InitFixedLeader /\ [][NextHub]_vars

SpecTick == Init /\ [][NextTick]_vars

SpecArb == InitFixedLeader /\ [][NextArb]_vars

SpecAgent == InitFixedLeader /\ [][NextAgent]_vars

\* The hub started with or without saved relationship files
InitSavedRelationships ==
    /\ InitCore /\ isLeader = TRUE /\ assignedWorkers = <<>>
    /\ \E saved \in SavedRelationships : InitRelationshipsFrom(saved)
    /\ InitDecide /\ InitQuery /\ InitPerson

SpecRelationships == InitSavedRelationships /\ [][NextRelationships]_vars

\* One chat event after each of the chat histories
InitChatHistory ==
    /\ InitCore /\ isLeader = TRUE /\ assignedWorkers = <<>>
    /\ InitRelationships
    /\ \E history \in Histories : InitDecideFrom(history)
    /\ InitQuery /\ InitPerson

SpecDecide == InitChatHistory /\ [][NextDecide]_vars

SpecQuery == InitFixedLeader /\ [][NextQuery]_vars

\* One SoulState for each personality
InitPersonalities ==
    /\ InitCore /\ isLeader = TRUE /\ assignedWorkers = <<>>
    /\ InitRelationships /\ InitDecide /\ InitQuery
    /\ \E personality \in SoulPersonalities : InitSoulWith(personality)
    /\ InitRelationship

SpecSoul == InitPersonalities /\ [][NextSoul]_vars

SpecRelationship == InitFixedLeader /\ [][NextRelationship]_vars

(***************************************************************************)
(* Response arbitration: properties                                        *)
(***************************************************************************)
\* Agents a and b both decided shouldRespond=true for message m for a reason other
\* than directly_mentioned and were waiting out their delays at the same time
ConcurrentWaiters(a, b, m) ==
    /\ a # b
    /\ b \in handlers[a][m].waitedWith
    /\ handlers[a][m].reason # DirectlyMentioned
    /\ handlers[b][m].reason # DirectlyMentioned

Distance(x, y) == IF x >= y THEN x - y ELSE y - x

InDecision(h) == h.pc \in {"deciding", "waiting"}

\* C12: a response that was decided and waiting out its delay when the agent was told
\* to shut up is never emitted.
C12_HushedResponseNeverEmitted ==
    \A p \in hushed : ~(MapHas(routed, p) /\ routed[p] = "emitted")

\* C13: for one agent, the decisions for two chat events never overlap.
C13_DecisionsDoNotOverlap ==
    \A a \in Agents : \A m, k \in Messages :
        (m # k) => ~(InDecision(handlers[a][m]) /\ InDecision(handlers[a][k]))

(***************************************************************************)
(* Command Relay: properties                                               *)
(***************************************************************************)
\* A step that is a call of routeCommand
IsRouteCommandStep == relayOps' = relayOps + 1 /\ relayLast'.op = "routeCommand"

\* C7: routeCommand to an unregistered worker returns 'Worker not found', and to a
\* worker whose recorded leader differs from the issuing leader returns 'Worker not
\* assigned to this leader'; in both cases the command table is left as it was (no
\* CommandRecord is created) and nothing is emitted to any worker.
C7_RejectedRouteLeavesNoTrace ==
    [][ IsRouteCommandStep =>
          /\ (~MapHas(workers, relayLast'.worker)) =>
                 /\ relayLast'.result = WorkerNotFound
                 /\ commandQueue' = commandQueue
                 /\ relayEmitted' = <<>>
          /\ (MapHas(workers, relayLast'.worker)
              /\ workers[relayLast'.worker].leader # relayLast'.leader) =>
                 /\ relayLast'.result = NotAssigned
                 /\ commandQueue' = commandQueue
                 /\ relayEmitted' = <<>>
      ]_vars

\* C7 witness: a command was rejected as not assigned while the worker is
\* registered (under the other leader)
C7_Witness ==
    /\ relayLast.op = "routeCommand"
    /\ relayLast.result = NotAssigned
    /\ MapHas(workers, relayLast.worker)

\* C8 (as claimed): after routeGroupCommand(leader, command, args, commandId) for a
\* leader whose worker list holds N workers, N commands were sent and the command
\* table holds a sent record commandId-i for the i-th listed worker, i = 0..N-1.
C8_GroupCreatesOnePerListedWorker ==
    relayLast.op = "routeGroupCommand" =>
        LET list == GetWorkersForLeader(relayLast.leader)
        IN  /\ Len(relayEmitted) = Len(list)
            /\ \A i \in 1..Len(list) :
                   LET id == Append(relayLast.commandId, i - 1)
                   IN  /\ MapHas(commandQueue, id)
                       /\ commandQueue[id].worker = list[i]
                       /\ commandQueue[id].leader = relayLast.leader
                       /\ commandQueue[id].status = "sent"

\* C9: when the worker is registered and assigned to the issuing leader, routeCommand
\* returns success, stores under commandId one record with status sent (every other
\* entry of the command table is untouched) and emits the command exactly once, to
\* that worker's socket.
C9_AcceptedRouteRecordsAndEmitsOnce ==
    [][ (IsRouteCommandStep
         /\ MapHas(workers, relayLast'.worker)
         /\ workers[relayLast'.worker].leader = relayLast'.leader) =>
          /\ relayLast'.result = Ok
          /\ DOMAIN commandQueue' = (DOMAIN commandQueue) \cup {relayLast'.commandId}
          /\ commandQueue'[relayLast'.commandId] =
                 [leader |-> relayLast'.leader, worker |-> relayLast'.worker,
                  command |-> relayLast'.command, status |-> "sent"]
          /\ \A k \in (DOMAIN commandQueue) \ {relayLast'.commandId} :
                 commandQueue'[k] = commandQueue[k]
          /\ relayEmitted' = << <<workers[relayLast'.worker].socket,
                                  relayLast'.command, relayLast'.commandId>> >>
      ]_vars

\* C9 witness: a command was accepted while another worker with another socket is
\* registered too
C9_Witness ==
    /\ relayLast.op = "routeCommand"
    /\ relayLast.result = Ok
    /\ \E w \in DOMAIN workers :
           w # relayLast.worker /\ workers[w].socket # workers[relayLast.worker].socket

\* C10: no leader's worker list holds a worker twice, and right after
\* registerWorker(worker, leader) the leader's list holds that worker exactly once,
\* also when the same pair had been registered before.
C10_RegisterWorkerIdempotent ==
    /\ \A l \in DOMAIN workersByLeader : \A w \in WorkerNames :
           CountOf(workersByLeader[l], w) <= 1
    /\ relayLast.op = "registerWorker" =>
           CountOf(GetWorkersForLeader(relayLast.leader), relayLast.worker) = 1

\* C10 witness: registerWorker was called for a pair that was already registered
C10_Witness == relayLast.op = "registerWorker" /\ relayLast.again

(***************************************************************************)
(* Command Relay, leaders and status reports: properties                   *)
(***************************************************************************)

\* C14: in every reachable relay state the status of every CommandRecord is one of
\* sent, completed, error.
C14_CommandStatusInSet ==
    \A id \in DOMAIN commandQueue : commandQueue[id].status \in {"sent", "completed", "error"}

\* C15: a CommandRecord leaves the command table only once its status is completed or
\* error and the 60 s delay since it became so has elapsed (it stays readable until then).
C15_ReadableUntilDelayElapsed ==
    [][\A id \in DOMAIN commandQueue :
          id \notin DOMAIN commandQueue' =>
              (/\ commandQueue[id].status \in TerminalStatuses
               /\ relayClock >= commandQueue[id].since + CleanupDelay)]_vars

\* C16: a call of updateWorkerStatus for a registered worker emits the status to a
\* socket (that of the worker's leader).
C16_StatusForwardedToLeader ==
    (relayLast.op = "updateWorkerStatus" /\ relayLast.registered) =>
        \E i \in 1..Len(relayEmitted) :
            /\ relayEmitted[i][2] = "worker-status-update"
            /\ relayEmitted[i][3] = relayLast.worker

\* C18: removeLeader(L) deletes L's entry of the leader table and changes neither a
\* WorkerRecord nor a worker list.
C18_RemoveLeaderOnlyRemovesEntry ==
    [][(relayOps' = relayOps + 1 /\ relayLast'.op = "removeLeader") =>
          (/\ workers' = workers
           /\ workersByLeader' = workersByLeader
           /\ leaders' = MapDelete(leaders, relayLast'.leader))]_vars

\* C18 witness: a registered leader with a registered worker in its list was removed
C18_Witness ==
    /\ relayLast.op = "removeLeader"
    /\ relayLast.existed
    /\ ~MapHas(leaders, relayLast.leader)
    /\ \E w \in DOMAIN workers :
           /\ workers[w].leader = relayLast.leader
           /\ Includes(GetWorkersForLeader(relayLast.leader), w)

(***************************************************************************)
(* Coordination Hub: properties                                            *)
(***************************************************************************)
WorkerLeftSentTo(socket, workerName) ==
    \E i \in 1..Len(hubEmitted) :
        /\ hubEmitted[i].to = socket
        /\ hubEmitted[i].event = "worker-left"
        /\ hubEmitted[i].arg = workerName

C17_RejectionReturnedToLeader ==
    (hubLast.op = "leader-command" /\ hubLast.result # Ok) =>
        \E i \in 1..Len(hubEmitted) :
            /\ hubEmitted[i].to = hubLast.socket
            /\ hubEmitted[i].arg = hubLast.result

\* C19: an agent is in game only while a connection that logged in as it is open.
C19_InGameOnlyWhileLoggedIn ==
    \A a \in DOMAIN agent_connections :
        agent_connections[a].in_game =>
            \E s \in Sockets : IsOpen(s) /\ a \in connections[s].loggedInAs

\* C20: a request to register an agent whose name is already registered is rejected
\* with an error and leaves the registrations unchanged.
C20_DuplicateNameRejected ==
    [][(/\ hubOps' = hubOps + 1
        /\ hubLast'.op \in {"create-agent", "createAgent"}
        /\ MapHas(agent_connections, hubLast'.name)) =>
           (/\ hubLast'.result = AlreadyExists
            /\ agent_connections' = agent_connections)]_vars

(***************************************************************************)
(* Tick Scheduler: properties                                              *)
(***************************************************************************)
InProgress(f) == f.pc \in {"adding", "awaiting"}

\* Every item id held by a sequence of items
ItemIds(items) == {items[i].id : i \in 1..Len(items)}

\* Number of places (the queue, each drained batch) that hold item id n
Occurrences(n) ==
    Cardinality({i \in 1..Len(pendingContext) : pendingContext[i].id = n})
    + Cardinality({<<k, i>> \in (1..Len(flushes)) \X (1..MaxItems + 1) :
                      i <= Len(flushes[k].batch) /\ flushes[k].batch[i].id = n})

\* C3 (as claimed): a leader makes at most one promptConvo call between two
\* consecutive firings of its thought-tick timer.
C3_AtMostOneCallPerInterval == isLeader => callsThisInterval <= 1

C5_EachItemInExactlyOneBatch ==
    /\ \A n \in 1..(nextItemId - 1) : Occurrences(n) = 1
    /\ \A k \in 1..Len(flushes) :
           ItemIds(flushes[k].batch) \cap ItemIds(pendingContext) = {}

\* C5 witness: an item was enqueued while a flush is awaiting the oracle
C5_Witness ==
    /\ Len(pendingContext) >= 1
    /\ \E k \in 1..Len(flushes) : flushes[k].pc = "awaiting"

\* C6 (as claimed): at most one flush of a leader is in progress at any time.
C6_NoOverlappingFlush ==
    Cardinality({k \in 1..Len(flushes) : InProgress(flushes[k])}) <= 1

(***************************************************************************)
(* Properties of the relationship cache                                    *)
(***************************************************************************)
\* the cache entries kept for the unordered pair p
EntriesForPair(p) ==
    {i \in 1..Len(relationship_cache) :
        {relationship_cache[i].value.agent, relationship_cache[i].value.target} = p}

\* C21: after any sequence of relationship-update events the cache holds, for
\* each unordered pair {agent, target} that has been updated, exactly one entry,
\* the most recent update for that pair; and a listen-to-agents event sends the
\* subscribing socket exactly the cached entries, one message per entry.
C21_CacheHoldsLatestPerPairAndListenSendsIt ==
    /\ \A p \in DOMAIN relLatest :
           /\ Cardinality(EntriesForPair(p)) = 1
           /\ \A i \in EntriesForPair(p) :
                  LET rel == relationship_cache[i].value
                  IN  [agent |-> rel.agent, target |-> rel.target, trust |-> rel.trust]
                          = relLatest[p]
    /\ relLast.op = "listen-to-agents" =>
           /\ Len(relEmitted) = Len(relationship_cache)
           /\ \A i \in 1..Len(relEmitted) :
                  /\ relEmitted[i].to = relLast.socket
                  /\ relEmitted[i].event = "relationship-update"
                  /\ relEmitted[i].arg = relationship_cache[i].value

\* C21 witness: a pair was updated in both directions, a second pair once, and
\* a client then subscribed and received the two cached entries
C21_Witness ==
    /\ relLast.op = "listen-to-agents"
    /\ relOps = 3
    /\ Cardinality(DOMAIN relLatest) = 2
    /\ Len(relEmitted) = 2
    /\ \E p \in DOMAIN relLatest : relLatest[p].agent = "Beta" /\ relLatest[p].target = "Alpha"

(***************************************************************************)
(* Properties of the response decision                                     *)
(***************************************************************************)
DecisionMade == decideLast.op = "chat"

\* the message holds the name, whatever the case of the letters
Names(message, name) == StrIncludes(ToLowerCase(message), ToLowerCase(name))

NamesOtherAgent(message) ==
    \E i \in 1..Len(OtherAgents) : OtherAgents[i] # BotName /\ Names(message, OtherAgents[i])

HasFarewell(message) == IncludesAny(ToLowerCase(message), FarewellPhrases)
HasAcknowledgment(message) == IncludesAny(ToLowerCase(message), AgreementPhrases)

\* the turns in which the bot and the sender follow each other
AlternatingTurns(recent, botName, sender) ==
    Cardinality({i \in 2..Len(recent) :
                    {recent[i - 1].sender, recent[i].sender} = {botName, sender}})

\* C22: a message whose text contains the recipient's own name, in any case,
\* is answered shouldRespond = true with reason directly_mentioned, whatever
\* farewell or acknowledgment phrases, other agents' names or recent context it has.
C22_SelfMentionAlwaysResponds ==
    (DecisionMade /\ Names(decideLast.in.message, decideLast.in.botName)) =>
        /\ decideLast.out.shouldRespond
        /\ decideLast.out.reason = "directly_mentioned"

\* C22 witness: a farewell that names the bot in another case, after a long exchange
C22_Witness ==
    /\ DecisionMade
    /\ decideLast.in.message = "bye blaze"
    /\ Len(recentMessages) = MaxRecentMessages
    /\ decideLast.out.shouldRespond
    /\ decideLast.out.reason = "directly_mentioned"

\* C23: whenever the oracle query of a decision fails (returns null), the result
\* is that of the heuristic fallback: a message with a question mark yields
\* shouldRespond = true, and a respond result uses the longer delay.
C23_OracleFailureUsesFallback ==
    (DecisionMade /\ decideLast.out.queries = 1 /\ decideLast.in.oracle.isNull) =>
        /\ decideLast.out.path = "simpleFallback"
        /\ StrIncludes(decideLast.in.message, "?") => decideLast.out.shouldRespond
        /\ decideLast.out.shouldRespond => decideLast.out.urgency = "slow"

\* C24: a reply whose first token is none of respond, skip, wait gives the
\* verdict wait, and shouldRespond = false unless an emotion override applies.
C24_UnrecognisedReplyIsWait ==
    (/\ DecisionMade
     /\ decideLast.out.queries = 1
     /\ ~decideLast.in.oracle.isNull
     /\ FirstField(Trim(ToLowerCase(decideLast.in.oracle.text))) \notin Verdicts) =>
        /\ decideLast.out.verdict = "wait"
        /\ decideLast.out.shouldRespond =>
               decideLast.out.reason \in {"provoked", "enthusiastic"}

\* C25: with 4 or more alternating turns between the recipient and the sender
\* in the recent shared context, a message that stages 1-4 did not decide is
\* skipped.
C25_FourTurnsAlwaysSkip ==
    (/\ DecisionMade
     /\ decideLast.out.path = "engine"
     /\ decideLast.out.reason \notin {"farewell_detected", "acknowledgment"}
     /\ AlternatingTurns(recentMessages, decideLast.in.botName, decideLast.in.username) >= 4) =>
        ~decideLast.out.shouldRespond

\* C26: the throttle of a decision counts the alternating turns over the last 8
\* lines of the shared recent context.
C26_ThrottleCountsLastEightLines ==
    (DecisionMade /\ decideLast.out.backAndForthCount >= 0) =>
        decideLast.out.backAndForthCount =
            AlternatingTurns(SliceLast(recentMessages, 8),
                             decideLast.in.botName, decideLast.in.username)

\* C27: a message that names neither the recipient nor another agent is
\* answered shouldRespond = false, with reason farewell_detected if it contains
\* a farewell phrase, and with reason acknowledgment if it is shorter than 50
\* characters and contains an acknowledgment phrase (and no farewell phrase).
C27_FarewellAndAcknowledgmentSkip ==
    (/\ DecisionMade
     /\ ~Names(decideLast.in.message, decideLast.in.botName)
     /\ ~NamesOtherAgent(decideLast.in.message)) =>
        /\ HasFarewell(decideLast.in.message) =>
               /\ ~decideLast.out.shouldRespond
               /\ decideLast.out.reason = "farewell_detected"
        /\ (/\ ~HasFarewell(decideLast.in.message)
            /\ Len(decideLast.in.message) < 50
            /\ HasAcknowledgment(decideLast.in.message)) =>
               /\ ~decideLast.out.shouldRespond
               /\ decideLast.out.reason = "acknowledgment"

\* C28: a decision made by one of stages 1-5 (self-mention, other-agent
\* mention, farewell, acknowledgment, back-and-forth throttle) issues no oracle
\* query.
C28_EarlyStagesIssueNoQuery ==
    (/\ DecisionMade
     /\ decideLast.out.reason \in
            {"directly_mentioned", "other_bot_mentioned", "farewell_detected",
             "acknowledgment", "conversation_limit"}) =>
        decideLast.out.queries = 0

\* C28 witness: the throttle skipped a message that the oracle would have answered
C28_Witness ==
    /\ DecisionMade
    /\ decideLast.out.reason = "conversation_limit"
    /\ decideLast.in.oracle = QueryReply("Respond.")
    /\ decideLast.out.queries = 0

\* C29: if the recipient is in a hostile emotion and the message names it or is
\* provocative, a message that reaches the oracle stage is answered
\* shouldRespond = true, whatever the oracle's verdict.
C29_ProvokedAlwaysResponds ==
    (/\ DecisionMade
     /\ decideLast.out.queries = 1
     /\ decideLast.in.personality.currentEmotion \in HostileEmotions
     /\ \/ Names(decideLast.in.message, decideLast.in.botName)
        \/ IncludesAny(ToLowerCase(decideLast.in.message),
                       <<"stupid", "useless", "you suck", "shut up">>)) =>
        decideLast.out.shouldRespond

\* C29 witness: an angry bot is told it is useless and the oracle says skip
C29_Witness ==
    /\ DecisionMade
    /\ decideLast.out.queries = 1
    /\ decideLast.in.personality.currentEmotion = "angry"
    /\ decideLast.in.message = "you are useless"
    /\ decideLast.out.verdict = "skip"
    /\ decideLast.out.shouldRespond
    /\ decideLast.out.reason = "provoked"

(***************************************************************************)
(* Properties of the query cache                                           *)
(***************************************************************************)
\* query number i had returned a result when query number j was issued
ReturnedBefore(i, j) == i <= queryLog[j].issuedAfter /\ ~queryLog[i].result.isNull

SameKey(i, j) ==
    /\ queryLog[j].opts.cacheKey # NoCacheKey
    /\ queryLog[i].opts.cacheKey = queryLog[j].opts.cacheKey

\* the queries whose outbound call stored a result that query number j can read
StoresBefore(j) ==
    {i \in 1..Len(queryLog) :
        /\ ReturnedBefore(i, j) /\ SameKey(i, j)
        /\ queryLog[i].opts.useCache /\ queryLog[i].outbound}

\* C30: a query issued with a cacheKey within 30 s of an earlier successful
\* query with the same cacheKey returns the earlier result and makes no
\* outbound call.
C30_SameKeyWithinTimeoutReturnsEarlierResult ==
    \A j \in 1..Len(queryLog) : \A i \in 1..Len(queryLog) :
        (/\ ReturnedBefore(i, j) /\ SameKey(i, j)
         /\ queryLog[j].issued - queryLog[i].returned < CacheTimeout) =>
            /\ ~queryLog[j].outbound
            /\ queryLog[j].result = queryLog[i].result

\* C30, amended: a query issued with useCache and a cacheKey, less than 30 s
\* after the last outbound call of a useCache query with the same cacheKey
\* returned a result, returns that result and makes no outbound call.
C30_CachingQueryWithinTimeoutOfLastStoreReturnsIt ==
    \A j \in 1..Len(queryLog) :
        (queryLog[j].opts.useCache /\ StoresBefore(j) # {}) =>
            LET last == CHOOSE i \in StoresBefore(j) : \A k \in StoresBefore(j) : k <= i
            IN  queryLog[j].issued - queryLog[last].returned < CacheTimeout =>
                    /\ ~queryLog[j].outbound
                    /\ queryLog[j].result = queryLog[last].result

\* C30 witness: two caching queries stored results for one key, and a third
\* one, issued later within the timeout of the second store, got the second result
C30_Witness ==
    /\ Len(queryLog) = 3
    /\ StoresBefore(3) = {1, 2}
    /\ queryLog[1].result # queryLog[2].result
    /\ queryLog[3].opts.useCache
    /\ queryLog[3].issued > queryLog[2].returned
    /\ ~queryLog[3].outbound
    /\ queryLog[3].result = queryLog[2].result

(***************************************************************************)
(* Properties of the emotional state                                       *)
(***************************************************************************)
\* C31: after any sequence of setEmotion and decayEmotion calls, emotionIntensity
\* and frustrationLevel are both within 0..1.
C31_IntensityAndFrustrationStayInUnitRange ==
    /\ 0 <= soul.emotionIntensity /\ soul.emotionIntensity <= Milli
    /\ 0 <= soul.frustrationLevel /\ soul.frustrationLevel <= Milli

\* C31 witness: a setEmotion whose intensity times the volatility factor was above 1
\* was applied with a frustrating emotion when the frustration was already at 1.
C31_Witness ==
    /\ soulLast.op = "setEmotion" /\ ~soulLast.resisted
    /\ soulLast.raw > Milli
    /\ soul.emotionIntensity = Milli
    /\ soul.emotion \in FrustratingEmotions
    /\ soulLast.frustrationBefore = Milli
    /\ soul.frustrationLevel = Milli

\* C32: a setEmotion('angry') leaves the emotion angry only if the frustration at
\* the call had reached the anger threshold; below it the emotion applied is
\* frustrated when the frustration is above half the threshold, annoyed when not.
C32_AngerNeedsFrustrationAtThreshold ==
    LET angerThreshold == OrHalf(soul.personality.angerThreshold)
        frustration    == soulLast.frustrationBefore
    IN  (soulLast.op = "setEmotion" /\ soulLast.requested = "angry") =>
            /\ soul.emotion = "angry" => frustration >= angerThreshold
            /\ ~soulLast.resisted =>
                   soul.emotion = IF frustration >= angerThreshold THEN "angry"
                                  ELSE IF 2 * frustration > angerThreshold
                                       THEN "frustrated" ELSE "annoyed"

\* C32 witness: a request for anger was applied as anger, the frustration having
\* been built up to the threshold by earlier calls.
C32_Witness ==
    /\ soulLast.op = "setEmotion" /\ soulLast.requested = "angry"
    /\ ~soulLast.resisted
    /\ soul.emotion = "angry"
    /\ soulLast.frustrationBefore > 0

(***************************************************************************)
(* Properties of a Relationship                                            *)
(***************************************************************************)
\* The type the thresholds give for the mean of the three metrics
TypeOfMean(trust, fondness, respect) ==
    LET mean3 == trust + fondness + respect     \* three times the mean
    IN  IF 10 * mean3 > 3 * 6 * Myriad THEN "bestFriend"
        ELSE IF 10 * mean3 > 3 * 3 * Myriad THEN "friend"
        ELSE IF 10 * mean3 > 3 * 1 * Myriad THEN "acquaintance"
        ELSE IF 10 * mean3 > 3 * (-2) * Myriad THEN "stranger"
        ELSE IF 10 * mean3 > 3 * (-5) * Myriad THEN "rival"
        ELSE "enemy"

\* C33: after any sequence of recordInteraction and decay calls the stored type is
\* the type the thresholds give for the mean of trust, fondness and respect.
C33_StoredTypeFollowsMetrics ==
    relationship.type =
        TypeOfMean(relationship.trust, relationship.fondness, relationship.respect)

\* C33 witness: a decay took the mean across a threshold and the type followed it.
C33_Witness ==
    /\ relationshipLast.op = "decay"
    /\ relationshipLast.before.type = "rival"
    /\ relationship.type = "stranger"

Metrics == {"trust", "fondness", "respect"}

\* C34 (as claimed): trust, fondness and respect stay within -1..1, and a decay of
\* any hours >= 0 neither increases the magnitude of a metric nor flips its sign.
C34_MetricsBoundedAndDecayShrinks ==
    /\ \A m \in Metrics : -Myriad <= relationship[m] /\ relationship[m] <= Myriad
    /\ relationshipLast.op = "decay" =>
           \A m \in Metrics :
               /\ Magnitude(relationship[m]) <= Magnitude(relationshipLast.before[m])
               /\ relationship[m] * relationshipLast.before[m] >= 0

(***************************************************************************)
(* Properties of the listener list                                         *)
(***************************************************************************)
\* C40 (as claimed): a connection that disconnected is no longer in agent_listeners,
\* however many listen-to-agents events it sent, and the interval is stopped once
\* every listener has disconnected.
C40_DisconnectedObserverIsNotListed ==
    /\ \A s \in Sockets : connections[s].state = "closed" => ~Includes(agent_listeners, s)
    /\ (\A s \in Sockets : Includes(agent_listeners, s) => connections[s].state = "closed")
           => ~listenerInterval

(***************************************************************************)
(* Properties of the relay's tables                                        *)
(***************************************************************************)
\* C35 (as claimed): a worker name is in leader L's list exactly if the worker is
\* registered with recorded leader L.
C35_ListsMatchRecordedLeaders ==
    \A l \in LeaderNames, w \in WorkerNames :
        Includes(GetWorkersForLeader(l), w)
            <=> (MapHas(workers, w) /\ workers[w].leader = l)

\* C36 (as claimed): a routeCommand that succeeds never takes the commandId of a
\* record that is still in status sent.
C36_RouteNeverReplacesSentRecord ==
    [][(/\ relayOps' = relayOps + 1
        /\ relayLast'.op = "routeCommand"
        /\ relayLast'.result = Ok)
          => ~(/\ MapHas(commandQueue, relayLast'.commandId)
               /\ commandQueue[relayLast'.commandId].status = "sent")]_vars

\* C37 (as claimed): updateWorkerStatus(w, status) changes the status of a record
\* only if the record was routed to w.
C37_StatusReportChangesOwnCommandsOnly ==
    [][(relayOps' = relayOps + 1 /\ relayLast'.op = "updateWorkerStatus")
          => \A id \in DOMAIN commandQueue :
                 commandQueue'[id].status # commandQueue[id].status
                     => commandQueue[id].worker = relayLast'.worker]_vars

(***************************************************************************)
(* Properties of the hub's connections                                     *)
(***************************************************************************)
\* C38 (as claimed): the disconnect of a connection leaves alone the entry of an
\* agent whose socket another connection has set since.
C38_OldDisconnectKeepsNewerConnection ==
    [][\A s \in Sockets :
          (IsOpen(s) /\ connections'[s].state = "closed")
              => \A a \in DOMAIN agent_connections :
                     (agent_connections[a].socket # NoOne /\ agent_connections[a].socket # s)
                         => /\ agent_connections'[a].socket = agent_connections[a].socket
                            /\ agent_connections'[a].in_game = agent_connections[a].in_game]_vars

====
